---- MODULE Spec2Model ----
(***************************************************************************)
(* A state-machine model of the mesh-repair add-on.                        *)
(*                                                                         *)
(*   t4p_clean/operations/clean_intersections.py   self-intersection       *)
(*       repair (wrapper + engine), called "clean" below                   *)
(*   t4p_smooth_intersection/operations/smooth.py  the older engine with   *)
(*       the live shrink/fatten fallback, called "legacy" below            *)
(*   t4p_clean/operations/clean_non_manifold.py    non-manifold repair     *)
(*       pipeline, small-island deletion, make-manifold loop, batch        *)
(*       operator and its report                                           *)
(*   t4p_clean/main.py                             checksum, queries       *)
(*                                                                         *)
(* The host's geometry kernel (bpy.ops.*, bmesh.ops.*, BVHTree) is the     *)
(* environment: what an edit does to the geometry is chosen with \E over   *)
(* the outcomes the kernel can produce, and a query is a function of the   *)
(* current mesh.                                                           *)
(***************************************************************************)
EXTENDS Integers, Sequences, FiniteSets, TLC

(***************************************************************************)
(* Bounds of the model.                                                    *)
(***************************************************************************)
\* largest max_attempts the caller passes
MaxAttemptsBound == 3
\* face indices 1..NFaces of the repaired mesh
NFaces == 2
\* vertex coordinate values 0..MaxCo, in units of 0.0005
MaxCo == 2
\* passes of the legacy split pass that may report a split
MaxSplitPasses == 1

(***************************************************************************)
(* Program constants.                                                      *)
(***************************************************************************)
\* main.py:380  def select_faces(face_indices, mesh, bm): three parameters
SelectFacesParams == 3
\* clean_intersections.py:478  select_faces(face_indices, obj): two arguments
SelectFacesArgs == 2
\* clean_intersections.py:468  if splits >= 3
SplitRoundCap == 3
\* smooth.py:306  max_iterations = 10
LegacySplitIterations == 10
\* smooth.py:423-432  for scale in (0.1, 0.2): _attempt(distance), _attempt(-distance)
AttemptsPerGroup == 4
\* main.py:330  decimals=3: one quantum (0.001) is 2 units of 0.0005
QuantumUnits == 2

Faces == 1..NFaces
CoValues == 0..MaxCo
NoResult == [changed |-> FALSE, clean |-> FALSE, set |-> FALSE]
\* the arguments of the last smoothing: the iteration, select_more and
\* select_less calls, the factor in tenths, the repeat count
NoParams == [i |-> 0, grow |-> 0, shrink |-> 0, factor |-> 0, repeat |-> 0]
NoCounters == [split |-> 0, smooth |-> 0, attempts |-> 0, groups |-> 0, reported |-> FALSE,
               params |-> NoParams]
NoSplitPass == [iter |-> 0, any |-> FALSE, passes |-> 0]
NoFallback == [entered |-> FALSE, groups |-> <<>>, gi |-> 0, attempt |-> 0,
               solved_any |-> FALSE, hidden |-> FALSE, max_length |-> 0]
EmptyGraph == [verts |-> {}, edges |-> {}]
NoIslands == [phase |-> "idle", bm |-> EmptyGraph, input |-> EmptyGraph, min_vertices |-> 0]
NoBM == [verts |-> {}, edges |-> {}, faces |-> 0, holes |-> 0, pinch |-> {},
         tri |-> TRUE, loops |-> 0, co |-> 0]
NoNMResult == [changed |-> FALSE, clean |-> FALSE, worse |-> FALSE, set |-> FALSE]
NoNM == [pc |-> "idle", version |-> "none", refused |-> FALSE, steps |-> <<>>,
         bm |-> NoBM, delete_island_threshold |-> 0,
         checksum_before |-> <<0, 0>>, num_errors_before |-> 0, num_errors_after |-> 0,
         num_faces |-> 0, rounds |-> 0, at_deletion |-> EmptyGraph,
         result |-> NoNMResult]
NoBatch == [pc |-> "idle", mode |-> "OBJECT", initial_selection |-> <<>>,
            objects_to_process |-> <<>>, current_index |-> 0, num_candidates |-> 0,
            num_fine |-> 0, num_failed |-> 0, num_fixed |-> 0, num_worse |-> 0,
            reports |-> <<>>, sound |-> "none", ret |-> "none"]

None == <<"none", 0>>
NoCache == [live |-> FALSE, obj |-> None, now |-> 0, decimal |-> {}, last |-> None,
            stored_content |-> None]
NoQuery == [phase |-> "idle", faces |-> <<>>, overlap |-> {}, which |-> "none",
            out |-> {}]
NoGrouping == [phase |-> "idle", faces |-> <<>>, select |-> {}, hide |-> {},
               which |-> "none", islands |-> <<>>]
NoMeshPair == [phase |-> "idle", a |-> <<>>, b |-> <<>>, at |-> 0,
               ha |-> <<>>, hb |-> <<>>]

NoFilter == [pc |-> "idle", objs |-> <<>>, now |-> 0, decimal |-> {}, raising |-> {},
             selected |-> {}, active |-> 0, at_invoke |-> [selected |-> {}, active |-> 0],
             objects_to_process |-> <<>>, current_index |-> 0, initial_active |-> 0,
             initial_selection |-> <<>>, objects_with_intersections |-> <<>>,
             mesh_candidates |-> 0, timer |-> FALSE, reports |-> <<>>, ret |-> "none"]
NoOp == [pc |-> "idle", kind |-> "none", mode |-> "OBJECT", ratio_ok |-> TRUE,
         types |-> <<>>, raising |-> {}, stubborn |-> {}, altered |-> {}, scene |-> {},
         selected |-> {}, active |-> 0, applied |-> <<>>, calls |-> <<>>,
         at_invoke |-> [mode |-> "OBJECT", selected |-> {}, active |-> 0],
         objects_to_process |-> <<>>, current_index |-> 0,
         initial_selection |-> <<>>, initial_active |-> 0, listed |-> <<>>,
         num_candidates |-> 0, num_fine |-> 0, num_failed |-> 0, num_fixed |-> 0,
         num_worse |-> 0, mesh_candidates |-> 0, triangulated_count |-> 0,
         timer |-> FALSE, progress |-> FALSE, reports |-> <<>>, ret |-> "none"]

NoFilterNM == [pc |-> "idle", version |-> "none", objs |-> <<>>, now |-> 0, decimal |-> {},
               raising |-> {}, selected |-> {}, active |-> 0,
               at_invoke |-> [selected |-> {}, active |-> 0],
               objects_to_process |-> <<>>, current_index |-> 0, initial_active |-> 0,
               initial_selection |-> <<>>, non_manifold_objects |-> <<>>,
               mesh_candidates |-> 0, timer |-> FALSE, reports |-> <<>>, ret |-> "none"]
NoShrink == [pc |-> "idle", version |-> "none", entry |-> "none", co |-> <<>>,
             isect |-> {}, select |-> {}, hide |-> {}, was_hidden |-> FALSE,
             groups |-> <<>>, gi |-> 0, max_length |-> 0, k |-> 0, tried |-> <<>>,
             accepted |-> FALSE, at_group |-> <<>>, last |-> <<>>,
             solved_any |-> FALSE, ret |-> "none", raised |-> "none"]
NoAnalysis == [pc |-> "idle", meshes |-> <<>>, before |-> <<>>, raising |-> {},
               props |-> <<>>, objects_to_process |-> <<>>, current_index |-> 0,
               analyses |-> <<>>, ret |-> "none"]
NoSplit == [pc |-> "idle", version |-> "none", face |-> <<>>, host |-> <<>>,
            reported |-> FALSE, inserted |-> FALSE, subdivided |-> 0]
NoBoxes == [pc |-> "idle", boxes |-> <<>>, groups |-> <<>>]

VARIABLES
  engine,            \* "clean" | "legacy": which engine this run executes
  pc,                \* position of the run
  mesh,              \* [co, polys, tri, isect]: the object's mesh
  max_attempts,      \* the attempt budget (after max(1, .))
  checksum_before,   \* wrapper: mesh_checksum_fast(obj) taken before the engine
  splits,            \* clean: rounds of the split pass completed
  iteration,         \* smooth loop: the iteration about to run
  face_indices,      \* result of the last intersection query
  dirty,             \* history: the mesh was edited after the last query
  result,            \* what the run returned: [changed, clean, set]
  counters,          \* history: [split, smooth, attempts, groups, reported]
  lsplit,            \* legacy split pass: [iter, any, passes]
  fb,                \* legacy fallback: [entered, groups, gi, attempt, solved_any, hidden, max_length]
  isl,               \* small-island deletion applied to one mesh: [phase, bm, input, min_vertices]
  nm,                \* one run of the non-manifold repair of an object
  batch,             \* the non-manifold batch operator: its state and report
  ck,                \* two meshes and their checksums: [phase, a, b, at, ha, hb]
  cache,             \* an object with its cached counts, the clock, the last cached read
  det,               \* an intersection query: the faces, the host's overlap pairs, the result
  grp,               \* a component grouping: the mesh, the grouper, the islands
  op,                \* a batch operator over the scene's selection: scene, state, reports
  flt,               \* the filter-intersections operator over objects with cached counts
  fnm,               \* the filter-non-manifold operator, in its modal and its one-call version
  sf,                \* the shrink/fatten fallback on one mesh in Edit mode
  an,                \* the analyze operator over objects with their meshes and stored stats
  spl,               \* the splitter applied to one visited face
  bb                 \* a bounding-box grouping: the islands' boxes and the groups

vars == <<engine, pc, mesh, max_attempts, checksum_before, splits, iteration,
          face_indices, dirty, result, counters, lsplit, fb, isl, nm, batch, ck, cache, det, grp, op, flt, fnm, sf,
          an, spl, bb>>

\* the variables of the services around the repair engines
serviceVars == <<ck, cache, det, grp, op, flt, fnm, sf, an, spl, bb>>

\* no service is in use
ServicesIdle ==
  /\ ck = NoMeshPair /\ cache = NoCache /\ det = NoQuery /\ grp = NoGrouping
  /\ op = NoOp /\ flt = NoFilter /\ fnm = NoFilterNM /\ sf = NoShrink
  /\ an = NoAnalysis /\ spl = NoSplit /\ bb = NoBoxes

repairVars == <<engine, pc, mesh, max_attempts, checksum_before, splits, iteration,
                face_indices, dirty, result, counters, lsplit, fb>>

\* what the actions of one service leave alone
exceptCk == <<repairVars, isl, nm, batch, cache, det, grp, op, flt, fnm, sf, an, spl, bb>>
exceptCache == <<repairVars, isl, nm, batch, ck, det, grp, op, flt, fnm, sf, an, spl, bb>>
exceptDet == <<repairVars, isl, nm, batch, ck, cache, grp, op, flt, fnm, sf, an, spl, bb>>
exceptGrp == <<repairVars, isl, nm, batch, ck, cache, det, op, flt, fnm, sf, an, spl, bb>>
exceptOp == <<repairVars, isl, nm, batch, ck, cache, det, grp, flt, fnm, sf, an, spl, bb>>
exceptFlt == <<repairVars, isl, nm, batch, ck, cache, det, grp, op, fnm, sf, an, spl, bb>>
exceptFnm == <<repairVars, isl, nm, batch, ck, cache, det, grp, op, flt, sf, an, spl, bb>>
exceptSf == <<repairVars, isl, nm, batch, ck, cache, det, grp, op, flt, fnm, an, spl, bb>>
exceptAn == <<repairVars, isl, nm, batch, ck, cache, det, grp, op, flt, fnm, sf, spl, bb>>
exceptSpl == <<repairVars, isl, nm, batch, ck, cache, det, grp, op, flt, fnm, sf, an, bb>>
exceptBb == <<repairVars, isl, nm, batch, ck, cache, det, grp, op, flt, fnm, sf, an, spl>>

(***************************************************************************)
(* Checksum service (t4p_clean/main.py).                                   *)
(***************************************************************************)
\* int(round(c * 10**3)): Python rounds half to even
\* c given in units of which u make one quantum 10**-3
QuantizeDown(c, u) == c \div u
QuantizeBy(c, u) ==
  LET d == c \div u
      r == c % u
  IN  IF 2 * r < u THEN d
      ELSE IF 2 * r > u THEN d + 1
      ELSE IF d % 2 = 0 THEN d ELSE d + 1

Quantize(c) == QuantizeBy(c, QuantumUnits)

\* blake2b over the quantized coordinates and the polygon loops; the hash is
\* taken as injective, so the digest is the hashed data itself
mesh_checksum_fast(m) == <<Quantize(m.co), m.polys>>

(***************************************************************************)
(* Queries and mesh edits.                                                 *)
(***************************************************************************)
\* a query that reports every face, whatever the mesh
every_face_index(m) == Faces
bmesh_get_intersecting_face_indices(m) == m.isect

mesh_has_intersections(m) == m.isect # {}

\* bmesh.ops.triangulate over all faces: nothing to do on triangles
triangulate_bmesh(m, q) ==
  IF m.tri THEN m ELSE [m EXCEPT !.polys = @ + 1, !.tri = TRUE, !.isect = q]

\* subdivide_edges (+ connect_verts): new vertices, faces stop being triangles
SubdividedMesh(m, q) == [m EXCEPT !.polys = @ + 1, !.tri = FALSE, !.isect = q]

\* vertices_smooth / shrink_fatten: coordinates move, topology stays; a move
\* that leaves every coordinate in place leaves the query's answer in place
MovedMesh(m, c, q) ==
  IF c = m.co THEN m ELSE [m EXCEPT !.co = c, !.isect = q]

\* outcomes of one _split_faces_once call on mesh m:
\*   <<reported a split, mesh afterwards>>
SplitOutcomes(m) ==
  IF m.isect = {} THEN {<<FALSE, m>>}
  ELSE {<<FALSE, m>>}
       \cup {<<FALSE, SubdividedMesh(m, q)>> : q \in SUBSET Faces}
       \cup {<<TRUE, SubdividedMesh(m, q)>> : q \in SUBSET Faces}

\* Python binds a call only when every required parameter gets an argument
SelectFacesCallBinds == SelectFacesArgs = SelectFacesParams

\* clean_intersections.py lines 460-469: whether `split` is still true after
\* a round that returned `changed` and was the n-th
SplitAgainUncapped(changed, n) == changed
SplitAgain(changed, n) == changed /\ n < SplitRoundCap

WrapperChangedAlways(before, after) == TRUE
WrapperChanged(before, after) == before # after

Bump(c, f) == [c EXCEPT ![f] = @ + 1]

\* the selection and smoothing calls of one iteration of the smooth loop:
\* clean_intersections.py lines 479-487; smooth.py lines 553-556, where
\* subdivisions_done is the 0 of line 521 and the repeat count is the
\* iteration itself
smoothing_calls(eng, i) ==
  IF eng = "clean"
  THEN [i |-> i, grow |-> IF i > 2 THEN 3 ELSE 2, shrink |-> 1, factor |-> 5,
        repeat |-> IF i > 2 THEN 3 ELSE 2]
  ELSE [i |-> i, grow |-> 2 + 0, shrink |-> 1, factor |-> 5, repeat |-> i]

(***************************************************************************)
(* Initial states of a repair run: any mesh, any budget, either engine.    *)
(***************************************************************************)
InitRepair ==
  /\ engine \in {"clean", "legacy"}
  /\ pc = "start"
  /\ mesh \in [co : CoValues, polys : {0}, tri : BOOLEAN, isect : SUBSET Faces]
  /\ max_attempts \in 1..MaxAttemptsBound
  /\ checksum_before = <<0, 0>>
  /\ splits = 0
  /\ iteration = 1
  /\ face_indices = {}
  /\ dirty = FALSE
  /\ result = NoResult
  /\ counters = NoCounters
  /\ lsplit = NoSplitPass
  /\ fb = NoFallback
  /\ isl = NoIslands /\ nm = NoNM /\ batch = NoBatch
  /\ ServicesIdle

(***************************************************************************)
(* t4p_clean: _clean_mesh_intersections_wrapper / _clean_mesh_intersections *)
(***************************************************************************)
\* wrapper lines 422-423, engine lines 439-450: checksum, reveal, triangulate
CleanBegin ==
  /\ engine = "clean" /\ pc = "start"
  /\ checksum_before' = mesh_checksum_fast(mesh)
  /\ \E q \in SUBSET Faces :
       /\ mesh' = triangulate_bmesh(mesh, q)
       /\ dirty' = (mesh' # mesh)
  /\ pc' = "split_loop"
  /\ UNCHANGED <<serviceVars, isl, nm, batch, engine, max_attempts, splits, iteration, face_indices, result,
                 counters, lsplit, fb>>

\* one pass through the body of `while split:` (lines 454-469)
CleanSplitRound ==
  /\ engine = "clean" /\ pc = "split_loop"
  /\ IF bmesh_get_intersecting_face_indices(mesh) = {}
     THEN \* line 456: return True
          /\ face_indices' = {}
          /\ dirty' = FALSE
          /\ result' = [result EXCEPT !.clean = TRUE]
          /\ pc' = "leave"
          /\ UNCHANGED <<mesh, splits, counters>>
     ELSE \E o \in SplitOutcomes(mesh), q \in SUBSET Faces :
            LET changed == o[1]
                m2 == IF changed THEN triangulate_bmesh(o[2], q) ELSE o[2]
            IN  /\ mesh' = m2
                /\ counters' = [Bump(counters, "split") EXCEPT !.reported = changed]
                /\ face_indices' = IF changed THEN m2.isect ELSE mesh.isect
                /\ dirty' = (~changed /\ o[2] # mesh)
                /\ IF changed /\ m2.isect = {}
                   THEN \* line 463: return True
                        /\ result' = [result EXCEPT !.clean = TRUE]
                        /\ pc' = "leave"
                        /\ UNCHANGED splits
                   ELSE /\ splits' = splits + 1
                        /\ pc' = IF SplitAgain(changed, splits + 1)
                                 THEN "split_loop" ELSE "smooth_loop"
                        /\ UNCHANGED result
  /\ UNCHANGED <<serviceVars, isl, nm, batch, engine, max_attempts, checksum_before, iteration, lsplit, fb>>

\* one iteration of `for iteration in range(1, max_attempts + 1)` (lines
\* 471-487) and, after the last one, lines 489-498
CleanSmoothIteration ==
  /\ engine = "clean" /\ pc = "smooth_loop"
  /\ IF bmesh_get_intersecting_face_indices(mesh) = {}
     THEN \* line 476: return True
          /\ face_indices' = {}
          /\ dirty' = FALSE
          /\ result' = [result EXCEPT !.clean = TRUE]
          /\ pc' = "leave"
          /\ UNCHANGED <<mesh, iteration, counters>>
     ELSE IF ~SelectFacesCallBinds
     THEN \* line 478: TypeError, select_faces() misses its argument 'bm'
          /\ face_indices' = mesh.isect
          /\ dirty' = FALSE
          /\ pc' = "raised"
          /\ UNCHANGED <<mesh, iteration, counters, result>>
     ELSE \E c \in CoValues, q \in SUBSET Faces :
            LET m2 == MovedMesh(mesh, c, q)
            IN  /\ mesh' = m2
                /\ counters' = [Bump(counters, "smooth") EXCEPT
                                  !.params = smoothing_calls("clean", iteration)]
                /\ iteration' = iteration + 1
                /\ IF iteration < max_attempts
                   THEN /\ face_indices' = mesh.isect
                        /\ dirty' = (m2 # mesh)
                        /\ pc' = "smooth_loop"
                        /\ UNCHANGED result
                   ELSE \* lines 489-498; line 494, the fallback, is commented out
                        /\ face_indices' = m2.isect
                        /\ dirty' = FALSE
                        /\ result' = [result EXCEPT !.clean = (m2.isect = {})]
                        /\ pc' = "leave"
  /\ UNCHANGED <<serviceVars, isl, nm, batch, engine, max_attempts, checksum_before, splits, lsplit, fb>>

\* wrapper lines 425-428: back to object mode, checksum, changed
CleanLeave ==
  /\ engine = "clean" /\ pc = "leave"
  /\ result' = [result EXCEPT
                  !.changed = WrapperChanged(checksum_before, mesh_checksum_fast(mesh)),
                  !.set = TRUE]
  /\ pc' = "returned"
  /\ UNCHANGED <<serviceVars, isl, nm, batch, engine, mesh, max_attempts, checksum_before, splits, iteration,
                 face_indices, dirty, counters, lsplit, fb>>

(***************************************************************************)
(* Legacy engine: t4p_smooth_intersection/operations/smooth.py             *)
(***************************************************************************)
\* bounding-box extents of a group (max_length), in units of 0.000001
GroupExtents == {0, 8, 20}

\* the distance of attempt k, in units of 0.0000001: scale 0.1 for attempts
\* 1 and 2, scale 0.2 for attempts 3 and 4 (smooth.py lines 423-424)
AttemptDistance(max_length, k) == IF k <= 2 THEN max_length ELSE 2 * max_length

\* smooth.py line 425: abs(distance) <= 1e-6
DistanceNegligible(d) == d <= 10

\* another attempt follows attempt k of a group
MoreAttemptsExtra(k) == k <= AttemptsPerGroup
MoreAttempts(k) == k < AttemptsPerGroup

MinOf(S) == CHOOSE x \in S : \A y \in S : x <= y

RECURSIVE OrderByMin(_)
OrderByMin(P) ==
  IF P = {} THEN <<>>
  ELSE LET g == CHOOSE g \in P : \A h \in P : MinOf(g) <= MinOf(h)
       IN  <<g>> \o OrderByMin(P \ {g})

\* the ways the island / bounding-box grouping can split the visible selected
\* faces S into groups: every partition of S, in order of first face
GroupingsOf(S) ==
  { OrderByMin({ {x \in S : f[x] = i} : i \in 1..Cardinality(S) } \ {{}}) :
      f \in [S -> 1..Cardinality(S)] }

\* smooth.py lines 524-533
LegacyBegin ==
  /\ engine = "legacy" /\ pc = "start"
  /\ face_indices' = mesh.isect
  /\ IF ~mesh_has_intersections(mesh)
     THEN /\ pc' = "leave"
          /\ dirty' = FALSE
          /\ UNCHANGED mesh
     ELSE \E q \in SUBSET Faces :
            /\ mesh' = triangulate_bmesh(mesh, q)
            /\ dirty' = (mesh' # mesh)
            /\ pc' = "L_split"
  /\ UNCHANGED <<serviceVars, isl, nm, batch, engine, max_attempts, checksum_before, splits, iteration, result,
                 counters, lsplit, fb>>

\* what follows the end of one _split_elongated_intersecting_faces call that
\* left mesh m: the body of the while loop (lines 536-541) when the pass
\* reported a split, lines 543-546 when it did not
LegacyPassEnd(m, any) ==
  IF any
  THEN \E q \in SUBSET Faces :
         LET m3 == triangulate_bmesh(m, q)
         IN  /\ mesh' = m3
             /\ face_indices' = m3.isect
             /\ dirty' = FALSE
             /\ lsplit' = [iter |-> 0, any |-> FALSE, passes |-> lsplit.passes + 1]
             /\ pc' = IF mesh_has_intersections(m3) THEN "L_split" ELSE "leave"
  ELSE /\ mesh' = m
       /\ face_indices' = m.isect
       /\ dirty' = FALSE
       /\ lsplit' = [lsplit EXCEPT !.iter = 0]
       /\ pc' = IF mesh_has_intersections(m) THEN "L_smooth" ELSE "leave"

\* one iteration of the for loop of _split_elongated_intersecting_faces
\* (lines 309-312), and the end of the pass when the loop ends
LegacySplitOnce ==
  /\ engine = "legacy" /\ pc = "L_split"
  /\ \E o \in SplitOutcomes(mesh) :
       /\ o[1] => lsplit.passes < MaxSplitPasses
       /\ counters' = [Bump(counters, "split") EXCEPT !.reported = o[1]]
       /\ IF o[1] /\ lsplit.iter + 1 < LegacySplitIterations
          THEN /\ mesh' = o[2]
               /\ face_indices' = mesh.isect
               /\ dirty' = TRUE
               /\ lsplit' = [lsplit EXCEPT !.iter = @ + 1, !.any = TRUE]
               /\ pc' = "L_split"
          ELSE LegacyPassEnd(o[2], lsplit.any \/ o[1])
  /\ UNCHANGED <<serviceVars, isl, nm, batch, engine, max_attempts, checksum_before, splits, iteration, result, fb>>

\* one iteration of the smooth loop (lines 548-565)
LegacySmoothIteration ==
  /\ engine = "legacy" /\ pc = "L_smooth"
  /\ IF bmesh_get_intersecting_face_indices(mesh) = {}
     THEN \* line 551: break
          /\ face_indices' = {}
          /\ dirty' = FALSE
          /\ pc' = "L_after"
          /\ UNCHANGED <<mesh, iteration, counters>>
     ELSE \E c \in CoValues, q \in SUBSET Faces :
            LET m2 == MovedMesh(mesh, c, q)
            IN  /\ mesh' = m2
                /\ counters' = [Bump(counters, "smooth") EXCEPT
                                  !.params = smoothing_calls("legacy", iteration)]
                /\ face_indices' = m2.isect
                /\ dirty' = FALSE
                /\ iteration' = iteration + 1
                /\ pc' = IF ~mesh_has_intersections(m2) THEN "leave"
                         ELSE IF iteration < max_attempts THEN "L_smooth"
                         ELSE "L_after"
  /\ UNCHANGED <<serviceVars, isl, nm, batch, engine, max_attempts, checksum_before, splits, result, lsplit, fb>>

\* lines 567-568 and _handle_remaining_intersections up to its group loop
\* (lines 440-476): select, grow by one ring, hide the rest, islands, groups
LegacyAfterLoop ==
  /\ engine = "legacy" /\ pc = "L_after"
  /\ face_indices' = mesh.isect
  /\ dirty' = FALSE
  /\ IF ~mesh_has_intersections(mesh)
     THEN /\ pc' = "leave"
          /\ UNCHANGED <<fb, counters>>
     ELSE \E sel \in {s \in SUBSET Faces : mesh.isect \subseteq s} :
          \E g \in GroupingsOf(sel) :
            /\ fb' = [entered |-> TRUE, groups |-> g, gi |-> 1, attempt |-> 0,
                      solved_any |-> FALSE, hidden |-> TRUE, max_length |-> 0]
            /\ counters' = [counters EXCEPT !.groups = Len(g)]
            /\ pc' = "L_group"
  /\ UNCHANGED <<serviceVars, isl, nm, batch, engine, mesh, max_attempts, checksum_before, splits, iteration,
                 result, lsplit>>

\* after group fb.gi is done with outcome `solved`: the next group, or the end
\* of the fallback (lines 493-504: reveal, deselect) and lines 568-575
LegacyNextGroup(solved) ==
  IF fb.gi < Len(fb.groups)
  THEN /\ fb' = [fb EXCEPT !.gi = @ + 1, !.attempt = 0, !.max_length = 0,
                           !.solved_any = @ \/ solved]
       /\ pc' = "L_group"
  ELSE /\ fb' = [fb EXCEPT !.attempt = 0, !.max_length = 0, !.hidden = FALSE,
                           !.solved_any = @ \/ solved]
       /\ pc' = "leave"

\* the start of _try_shrink_fatten for group fb.gi (lines 366-390)
LegacyGroupStart ==
  /\ engine = "legacy" /\ pc = "L_group"
  /\ \E ml \in GroupExtents :
       IF ml <= 0
       THEN LegacyNextGroup(FALSE)
       ELSE /\ fb' = [fb EXCEPT !.max_length = ml, !.attempt = 1]
            /\ pc' = "L_attempt"
  /\ UNCHANGED <<serviceVars, isl, nm, batch, engine, mesh, max_attempts, checksum_before, splits, iteration,
                 face_indices, dirty, result, counters, lsplit>>

\* attempt fb.attempt of the loop `for scale in (0.1, 0.2)` (lines 392-434):
\* +distance then -distance for each scale
LegacyAttempt ==
  /\ engine = "legacy" /\ pc = "L_attempt"
  /\ LET k == fb.attempt
         group_face_indices == fb.groups[fb.gi]
         giveUp == /\ LegacyNextGroup(FALSE)
                   /\ UNCHANGED <<mesh, face_indices, dirty>>
         failed == IF MoreAttempts(k)
                   THEN /\ fb' = [fb EXCEPT !.attempt = k + 1]
                        /\ pc' = "L_attempt"
                        /\ UNCHANGED mesh
                   ELSE /\ LegacyNextGroup(FALSE)
                        /\ UNCHANGED mesh
     IN  IF DistanceNegligible(AttemptDistance(fb.max_length, k))
         THEN \* line 426: continue, both signs of this scale are skipped
              /\ UNCHANGED counters
              /\ IF k <= 2
                 THEN /\ fb' = [fb EXCEPT !.attempt = 3]
                      /\ pc' = "L_attempt"
                      /\ UNCHANGED <<mesh, face_indices, dirty>>
                 ELSE giveUp
         ELSE /\ counters' = Bump(counters, "attempts")
              /\ \/ \* shrink_fatten or vertices_smooth raises RuntimeError:
                    \* the saved coordinates are restored
                    /\ failed
                    /\ UNCHANGED <<face_indices, dirty>>
                 \/ \E c \in CoValues, q \in SUBSET Faces :
                      LET m2 == MovedMesh(mesh, c, q)
                          remaining == bmesh_get_intersecting_face_indices(m2)
                      IN  IF remaining \cap group_face_indices = {}
                          THEN /\ mesh' = m2
                               /\ face_indices' = remaining
                               /\ dirty' = FALSE
                               /\ LegacyNextGroup(TRUE)
                          ELSE /\ failed
                               /\ face_indices' = remaining
                               /\ dirty' = TRUE
  /\ UNCHANGED <<serviceVars, isl, nm, batch, engine, max_attempts, checksum_before, splits, iteration, result,
                 lsplit>>

\* lines 574-580: back to object mode, return smoothed_attempts
LegacyLeave ==
  /\ engine = "legacy" /\ pc = "leave"
  /\ pc' = "returned"
  /\ UNCHANGED <<serviceVars, isl, nm, batch, engine, mesh, max_attempts, checksum_before, splits, iteration,
                 face_indices, dirty, result, counters, lsplit, fb>>

NextRepair ==
  \/ CleanBegin \/ CleanSplitRound \/ CleanSmoothIteration \/ CleanLeave
  \/ LegacyBegin \/ LegacySplitOnce \/ LegacySmoothIteration \/ LegacyAfterLoop
  \/ LegacyGroupStart \/ LegacyAttempt \/ LegacyLeave

SpecRepair == InitRepair /\ [][NextRepair]_vars /\ WF_vars(NextRepair)

Ended == pc \in {"returned", "raised"}

(***************************************************************************)
(* Properties of the self-intersection repair.                             *)
(***************************************************************************)
RepairBounds ==
  /\ counters.smooth <= max_attempts
  /\ engine = "clean" =>
       /\ counters.split <= SplitRoundCap
       /\ counters.attempts = 0
  /\ engine = "legacy" =>
       /\ counters.attempts <= AttemptsPerGroup * counters.groups
       /\ lsplit.iter <= LegacySplitIterations
       /\ counters.split <= LegacySplitIterations * (lsplit.passes + 1)

C2_NoError == (engine = "clean" /\ face_indices # {}) => pc # "raised"

\* C3 (as stated): the run returns clean = true iff its last query was empty
\* and the mesh was not edited since, and returns clean = false exactly when
\* its last query was not empty.
C3_CleanIffLastQueryEmpty ==
  (engine = "clean" /\ Ended) =>
     /\ (result.set /\ result.clean) <=> (face_indices = {} /\ ~dirty)
     /\ (result.set /\ ~result.clean) <=> (face_indices # {})

\* C4: the changed flag a run returns is true exactly when the checksum of
\* the mesh after the engine differs from the checksum taken before it,
\* whatever number of steps ran.
C4_ChangedIsChecksumDiff ==
  (engine = "clean" /\ pc = "returned") =>
     /\ result.set
     /\ result.changed <=> (mesh_checksum_fast(mesh) # checksum_before)

\* a run that executed split rounds and returned changed = true
C4_Witness ==
  /\ engine = "clean" /\ pc = "returned"
  /\ counters.split >= 2
  /\ result.changed

\* C5 (as stated): a run that ends with intersecting faces present has run
\* the shrink/fatten fallback.
C5_FallbackBeforeFinish ==
  (Ended /\ bmesh_get_intersecting_face_indices(mesh) # {}) => fb.entered
(***************************************************************************)
(* Vertex islands and small-island deletion                                *)
(* (t4p_clean/operations/clean_non_manifold.py lines 127-184; the same     *)
(* deletion rule is t4p_smooth_intersection/__init__.py lines 218-235).    *)
(* A mesh is seen as its vertices and the vertex pairs joined by an edge.  *)
(***************************************************************************)
\* vertices 1..NIslandVerts of the meshes the deletion is applied to
NIslandVerts == 4
\* largest min_vertices the deletion is called with
MaxThreshold == 5

PairsOf(V) == {e \in SUBSET V : Cardinality(e) = 2}

MaxOf(S) == CHOOSE x \in S : \A y \in S : y <= x

\* the elements of S in increasing order
SortedSeq(S) ==
  CHOOSE q \in {[i \in 1..Cardinality(T) |->
                   CHOOSE x \in T : Cardinality({y \in T : y < x}) = i - 1] :
                  T \in {S}} : TRUE

\* one pass through the body of `while stack:` (lines 143-158): pop, skip
\* the visited, visit, push the unvisited vertices of the linked edges;
\* st is [bm, stack, visited, island]
FloodStep(st) ==
  LET current == st.stack[Len(st.stack)]
      rest == SubSeq(st.stack, 1, Len(st.stack) - 1)
      seen == st.visited \cup {current}
      linked == {w \in st.bm.verts : {current, w} \in st.bm.edges /\ w \notin seen}
  IN  IF current \in st.visited THEN [st EXCEPT !.stack = rest]
      ELSE [st EXCEPT !.stack = rest \o SortedSeq(linked), !.visited = seen,
                      !.island = @ \cup {current}]

\* the `while stack:` loop (lines 142-158)
RECURSIVE FloodFill(_)
FloodFill(st) ==
  IF st.stack = <<>> THEN st
  ELSE CHOOSE r \in {FloodFill(nx) : nx \in {FloodStep(st)}} : TRUE

\* one pass through the body of `for vert in bm.verts` (lines 134-162);
\* st is [bm, todo, visited, islands]
IslandStep(st) ==
  IF Head(st.todo) \in st.visited THEN [st EXCEPT !.todo = Tail(@)]
  ELSE CHOOSE n \in {[st EXCEPT !.todo = Tail(@), !.visited = r.visited,
                               !.islands = Append(@, r.island)] :
                       r \in {FloodFill([bm |-> st.bm, stack |-> <<Head(st.todo)>>,
                                         visited |-> st.visited, island |-> {}])}} : TRUE

\* the `for vert in bm.verts` loop, over the vertices in index order
RECURSIVE IslandsFrom(_)
IslandsFrom(st) ==
  IF st.todo = <<>> THEN st.islands
  ELSE CHOOSE r \in {IslandsFrom(nx) : nx \in {IslandStep(st)}} : TRUE

\* lines 127-164
get_mesh_vertex_islands(bm) ==
  CHOOSE r \in {IslandsFrom(st) :
                  st \in {[bm |-> [verts |-> bm.verts, edges |-> bm.edges],
                           todo |-> SortedSeq(bm.verts), visited |-> {},
                           islands |-> <<>>]}} : TRUE

\* line 177: the test that puts an island on the deletion list
IsSmallIslandNoMax(size, min_vertices, max_size) == size < min_vertices
IsSmallIslandOrTied(size, min_vertices, max_size) == size < min_vertices /\ size <= max_size
IsSmallIsland(size, min_vertices, max_size) == size < min_vertices /\ size < max_size

\* lines 174-178
verts_to_delete(islands, min_vertices) ==
  LET max_size == MaxOf({Cardinality(islands[k]) : k \in DOMAIN islands})
  IN  UNION {islands[k] : k \in {j \in DOMAIN islands :
                IsSmallIsland(Cardinality(islands[j]), min_vertices, max_size)}}

\* bmesh.ops.delete(context="VERTS"): the vertices go, and every edge on them
DeleteVerts(bm, D) ==
  [bm EXCEPT !.verts = @ \ D, !.edges = {e \in @ : e \cap D = {}}]

\* lines 167-184
delete_small_vertex_islands(bm, min_vertices) ==
  CHOOSE r \in {IF islands = <<>> THEN bm
                ELSE DeleteVerts(bm, verts_to_delete(islands, min_vertices)) :
                  islands \in {get_mesh_vertex_islands(bm)}} : TRUE

RepairIdle ==
  /\ engine = "none" /\ pc = "idle"
  /\ mesh = [co |-> 0, polys |-> 0, tri |-> TRUE, isect |-> {}]
  /\ max_attempts = 1
  /\ checksum_before = <<0, 0>>
  /\ splits = 0 /\ iteration = 1 /\ face_indices = {} /\ dirty = FALSE
  /\ result = NoResult /\ counters = NoCounters /\ lsplit = NoSplitPass
  /\ fb = NoFallback

InitIslands ==
  /\ RepairIdle /\ ServicesIdle
  /\ nm = NoNM /\ batch = NoBatch
  /\ \E n \in 0..NIslandVerts, E \in SUBSET PairsOf(1..NIslandVerts),
        t \in 0..MaxThreshold :
       /\ E \subseteq PairsOf(1..n)
       /\ isl = [phase |-> "input", bm |-> [verts |-> 1..n, edges |-> E],
                 input |-> [verts |-> 1..n, edges |-> E], min_vertices |-> t]

DeleteSmallVertexIslands ==
  /\ isl.phase = "input"
  /\ isl' = [isl EXCEPT !.phase = "deleted",
                        !.bm = delete_small_vertex_islands(isl.bm, isl.min_vertices)]
  /\ UNCHANGED <<serviceVars, repairVars, nm, batch>>

NextIslands == DeleteSmallVertexIslands

SpecIslands == InitIslands /\ [][NextIslands]_vars

\* the island of v, by closing {v} under the edges
RECURSIVE Closure(_, _)
Closure(bm, S) ==
  CHOOSE r \in {IF S2 = S THEN S ELSE Closure(bm, S2) :
                  S2 \in {S \cup {w \in bm.verts : \E u \in S : {u, w} \in bm.edges}}} : TRUE

IslandSize(bm, v) == Cardinality(Closure(bm, {v}))

LargestIslandSize(bm) == MaxOf({IslandSize(bm, v) : v \in bm.verts})

\* C8: the deletion removes exactly the vertices of the islands whose vertex
\* count is below min_vertices and below the largest island's count, with the
\* edges on them; an island of the largest size is never deleted, so a mesh
\* with a vertex keeps a vertex.
C8_DeletesExactlySmallIslands ==
  isl.phase = "deleted" =>
    LET g == isl.input
        doomed == {v \in g.verts : /\ IslandSize(g, v) < isl.min_vertices
                                   /\ IslandSize(g, v) < LargestIslandSize(g)}
    IN  /\ isl.bm.verts = g.verts \ doomed
        /\ isl.bm.edges = {e \in g.edges : e \cap doomed = {}}
        /\ \A v \in g.verts : IslandSize(g, v) = LargestIslandSize(g) => v \in isl.bm.verts
        /\ g.verts # {} => isl.bm.verts # {}

\* a deletion that removed an island and kept one smaller than min_vertices
C8_Witness ==
  /\ isl.phase = "deleted"
  /\ isl.bm.verts # isl.input.verts
  /\ isl.bm.verts # {}
  /\ \E v \in isl.bm.verts : IslandSize(isl.input, v) < isl.min_vertices
(***************************************************************************)
(* Non-manifold batch operator (clean_non_manifold.py lines 276-441).      *)
(***************************************************************************)
\* most objects selected when the operator is invoked
MaxObjects == 3

\* what _clean_object_non_manifold can return for an object with mesh data
\* (lines 73-87): <<changed, clean, worse>>, worse only with errors left
NMReturns == {r \in BOOLEAN \X BOOLEAN \X BOOLEAN : r[3] => ~r[2]}

\* lines 421-436: the report of a completed batch, if any
report_results(state) ==
  IF state.num_candidates = 0
  THEN <<[level |-> "INFO", msg |-> "no_mesh_objects"]>>
  ELSE IF state.num_failed = 0 /\ state.num_fixed > 0 /\ state.num_worse = 0
  THEN <<[level |-> "INFO", msg |-> "fixed_all"]>>
  ELSE IF state.num_fixed > 0 \/ (state.num_failed > 0 /\ state.num_worse = 0)
  THEN <<[level |-> "WARNING", msg |-> "cleaned_n_clean"]>>
  ELSE IF state.num_worse > 0
  THEN <<[level |-> "ERROR", msg |-> "n_is_worse"]>>
  ELSE <<>>

\* lines 438-441
report_sound(state) ==
  IF state.num_failed > 0 \/ state.num_worse > 0 THEN "warning" ELSE "happy"

\* lines 368-376: the counters after an object returned r
count_object(state, r) ==
  LET changed == r[1]
      clean == r[2]
      worse == r[3]
      s1 == IF clean /\ ~changed THEN [state EXCEPT !.num_fine = @ + 1]
            ELSE IF clean /\ changed THEN [state EXCEPT !.num_fixed = @ + 1]
            ELSE IF ~clean /\ changed THEN [state EXCEPT !.num_failed = @ + 1]
            ELSE state
  IN  IF worse THEN [s1 EXCEPT !.num_worse = @ + 1] ELSE s1

\* lines 378-393 with cancelled = False
finish_modal(state) ==
  [state EXCEPT !.pc = "finished", !.ret = "FINISHED",
                !.reports = @ \o report_results(state),
                !.sound = report_sound(state)]

SelectMeshes(sel) == SelectSeq(sel, LAMBDA o : o = "MESH")

InitBatch ==
  /\ RepairIdle /\ ServicesIdle
  /\ isl = NoIslands /\ nm = NoNM
  /\ \E n \in 0..MaxObjects, m \in {"OBJECT", "EDIT"} :
     \E sel \in [1..n -> {"MESH", "OTHER"}] :
       batch = [NoBatch EXCEPT !.pc = "invoked", !.mode = m, !.initial_selection = sel]

\* invoke / execute -> _begin (lines 312-344)
BatchBegin ==
  /\ batch.pc = "invoked"
  /\ IF batch.mode # "OBJECT"
     THEN batch' = [batch EXCEPT !.pc = "finished", !.ret = "CANCELLED",
                      !.reports = <<[level |-> "ERROR", msg |-> "switch_to_object_mode"]>>]
     ELSE IF batch.initial_selection = <<>>
     THEN batch' = [batch EXCEPT !.pc = "finished", !.ret = "FINISHED",
                      !.reports = <<[level |-> "INFO", msg |-> "no_objects"]>>]
     ELSE LET todo == SelectMeshes(batch.initial_selection)
              st == [batch EXCEPT !.objects_to_process = todo,
                                  !.num_candidates = Len(todo)]
          IN  IF todo = <<>>
              THEN batch' = finish_modal(st)
              ELSE batch' = [st EXCEPT !.pc = "modal", !.ret = "RUNNING_MODAL"]
  /\ UNCHANGED <<serviceVars, repairVars, isl, nm>>

\* modal() on a TIMER event (lines 303-310), with _process_object
BatchTimer ==
  /\ batch.pc = "modal"
  /\ IF batch.current_index >= Len(batch.objects_to_process)
     THEN batch' = finish_modal(batch)
     ELSE \E in_scene \in BOOLEAN, r \in NMReturns :
            LET st == IF in_scene THEN count_object(batch, r) ELSE batch
            IN  batch' = [st EXCEPT !.current_index = @ + 1]
  /\ UNCHANGED <<serviceVars, repairVars, isl, nm>>

\* modal() on an ESC event (lines 296-297), _finish_modal with cancelled = True
BatchEsc ==
  /\ batch.pc = "modal"
  /\ batch' = [batch EXCEPT !.pc = "finished", !.ret = "CANCELLED",
                 !.reports = @ \o <<[level |-> "WARNING", msg |-> "cancelled"]>>,
                 !.sound = "warning"]
  /\ UNCHANGED <<serviceVars, repairVars, isl, nm>>

NextBatch == BatchBegin \/ BatchTimer \/ BatchEsc

SpecBatch == InitBatch /\ [][NextBatch]_vars

ReportTellsWorse ==
  \E k \in DOMAIN batch.reports : batch.reports[k].msg = "n_is_worse"

\* C7 (as stated): the report of a completed batch in which an object got
\* worse tells the caller that objects got worse, whatever the other counts.
C7_WorseIsReported ==
  (batch.pc = "finished" /\ batch.ret = "FINISHED" /\ batch.num_worse > 0)
     => ReportTellsWorse
(***************************************************************************)
(* Non-manifold repair of one object                                       *)
(* (clean_non_manifold.py lines 40-119, main.py lines 138-160).            *)
(* The mesh: vertices and the pairs an edge joins, the number of faces,    *)
(* the number of open holes fill_holes can close, the vertices that are    *)
(* non-manifold without being loose (pinch), whether every face is a       *)
(* triangle, the winding of the face loops, the coordinates.               *)
(***************************************************************************)
\* vertices 1..NVerts of the repaired object
NVerts == 7
\* most faces of the object at the start
MaxFaces == 2
\* most open holes of the mesh at a time
MaxHoles == 1
\* most faces that go with the vertices one deletion removes
MaxFacesLost == 1
\* boundary vertices around one open hole
HoleBoundaryVerts == 3

\* clean_non_manifold.py:366  _clean_object_non_manifold(obj, 0.001, 100)
IslandThreshold == 100

\* what mesh_checksum_fast reads of the mesh
MeshData(bm) == [co |-> bm.co, polys |-> <<bm.verts, bm.edges, bm.faces, bm.loops>>]

\* vertices of the islands too small to carry a face: loose vertices and the
\* ends of loose edges
LooseVerts(bm) ==
  UNION {UNION {islands[k] : k \in {j \in DOMAIN islands : Cardinality(islands[j]) <= 2}} :
           islands \in {get_mesh_vertex_islands(bm)}}

\* select_non_manifold_verts(use_wire=True, use_verts=True) (line 118)
WireAndPinchVerts(bm) == LooseVerts(bm) \cup bm.pinch

\* main.py lines 156-160: wire, boundary, multi-face and pinched vertices
count_non_manifold_verts(bm) ==
  Cardinality(WireAndPinchVerts(bm)) + HoleBoundaryVerts * bm.holes

LowerFaces(n) == {f \in 0..n : f + MaxFacesLost >= n}

\* the vertex sets that can be pinched: none, or the first or the last of the
\* vertices that are not loose
PinchChoices(bm) ==
  UNION {{{}} \cup {{v} : v \in {x \in big : \/ \A y \in big : x <= y
                                            \/ \A y \in big : y <= x}} :
           big \in {bm.verts \ LooseVerts(bm)}}

\* the meshes a deletion of the vertices D can leave: loose vertices go
\* alone; other vertices take faces with them and may open holes and pinch
\* the surface
AfterDelete(bm, D) ==
  UNION {IF D \subseteq LooseVerts(bm) THEN {g}
         ELSE {[g EXCEPT !.faces = f, !.holes = h, !.pinch = p] :
                 f \in LowerFaces(bm.faces), h \in 0..MaxHoles, p \in PinchChoices(g)} :
           g \in {[DeleteVerts(bm, D) EXCEPT !.pinch = @ \ D]}}

\* u and v become one vertex (u): remove_doubles, dissolve_degenerate
MergeVerts(bm, u, v) ==
  LET move(e) == {IF x = v THEN u ELSE x : x \in e}
  IN  [bm EXCEPT !.verts = @ \ {v},
                 !.edges = {move(e) : e \in {d \in @ : d # {u, v}}},
                 !.pinch = {IF x = v THEN u ELSE x : x \in @}]

\* _triangulate_bmesh on the object's mesh
triangulate(bm) == IF bm.tri THEN bm ELSE [bm EXCEPT !.faces = @ + 1, !.tri = TRUE]

\* bpy.ops.mesh.fill_holes(sides=0): one face for each open hole
fill_holes(bm) ==
  IF bm.holes = 0 THEN bm
  ELSE [bm EXCEPT !.faces = @ + bm.holes, !.holes = 0, !.tri = FALSE]

\* lines 115-119: fill the holes, delete the wire and pinched vertices
TryFixManifoldOutcomes(bm) ==
  UNION {UNION {AfterDelete(filled, D) : D \in {WireAndPinchVerts(filled)}} :
           filled \in {fill_holes(bm)}}

\* line 109: the loop stops when the round left the number of faces as it was
LoopStopsAlways(new_num_faces, num_faces) == TRUE
LoopStopsNever(new_num_faces, num_faces) == FALSE
LoopStops(new_num_faces, num_faces) == new_num_faces = num_faces

\* lines 77-78 and 83
IsWorseOrEqual(after, before) == after >= before
IsWorse(after, before) == after > before

PathEdges == {{i, i + 1} : i \in 1..(NVerts - 1)}

\* the positions of _clean_object_non_manifold in the order of its text:
\* clean_non_manifold.py lines 49-87
CleanOrder ==
  <<"start", "delete_loose", "delete_interior_faces", "fill_holes",
    "delete_small_islands", "dissolve_degenerate", "remove_doubles",
    "make_manifold", "unify_normals", "count_after", "returned">>
\* t4p_smooth_intersection/__init__.py lines 908-970
LegacyOrder ==
  <<"start", "delete_small_islands", "delete_interior_faces", "delete_loose",
    "fill_holes", "dissolve_degenerate", "legacy_end", "returned_legacy">>

OrderOf(version) == IF version = "legacy" THEN LegacyOrder ELSE CleanOrder

\* the statement after the one at position step; NextStepLegacy follows the
\* legacy text whatever the version
NextStepIn(order, step) == order[(CHOOSE i \in DOMAIN order : order[i] = step) + 1]
NextStepLegacy(version, step) ==
  IF step \in {LegacyOrder[i] : i \in 1..(Len(LegacyOrder) - 1)}
  THEN NextStepIn(LegacyOrder, step) ELSE NextStepIn(CleanOrder, step)
NextStep(version, step) == NextStepIn(OrderOf(version), step)

InitNM ==
  /\ RepairIdle /\ ServicesIdle
  /\ isl = NoIslands /\ batch = NoBatch
  /\ \E E \in SUBSET PathEdges, f \in 0..MaxFaces, h \in 0..MaxHoles, t \in BOOLEAN :
       LET g == [NoBM EXCEPT !.verts = 1..NVerts, !.edges = E]
       IN  /\ (g.verts = LooseVerts(g)) => (f = 0 /\ h = 0)
           /\ (f = 0) => (h = 0 /\ t)
           /\ \E p \in PinchChoices(g), ver \in {"clean", "legacy"}, ref \in BOOLEAN :
                /\ ref => ver = "legacy"
                /\ nm = [NoNM EXCEPT !.pc = "start", !.delete_island_threshold = IslandThreshold,
                        !.version = ver, !.refused = ref,
                        !.bm = [g EXCEPT !.faces = f, !.holes = h, !.tri = t, !.pinch = p]]

\* lines 44-59: checksum, edit mode, select all, reveal, triangulate, count;
\* legacy (__init__.py lines 908-928): edit mode, which the host may refuse
\* (RuntimeError caught, return False), select all, triangulate
NMBegin ==
  /\ nm.pc = "start"
  /\ LET bm2 == triangulate(nm.bm)
     IN  nm' = IF nm.version = "legacy" /\ nm.refused
               THEN [nm EXCEPT !.pc = "returned_legacy", !.result.set = TRUE]
               ELSE IF nm.version = "legacy"
               THEN [nm EXCEPT !.pc = NextStep(nm.version, "start"), !.bm = bm2,
                               !.steps = <<"select_all", "triangulate">>]
               ELSE [nm EXCEPT !.pc = NextStep(nm.version, "start"), !.bm = bm2,
                  !.steps = <<"select_all", "reveal", "triangulate", "count_before">>,
                  !.checksum_before = mesh_checksum_fast(MeshData(nm.bm)),
                  !.num_errors_before = count_non_manifold_verts(bm2)]
  /\ UNCHANGED <<serviceVars, repairVars, isl, batch>>

\* line 61: bpy.ops.mesh.delete_loose()
NMDeleteLoose ==
  /\ nm.pc = "delete_loose"
  /\ \E D \in {LooseVerts(nm.bm)} :
     \E bm2 \in AfterDelete(nm.bm, D) :
       nm' = [nm EXCEPT !.pc = NextStep(nm.version, "delete_loose"),
                !.steps = Append(@, "delete_loose"), !.bm = bm2]
  /\ UNCHANGED <<serviceVars, repairVars, isl, batch>>

\* line 62, lines 193-198: select the interior faces, delete them
NMDeleteInteriorFaces ==
  /\ nm.pc = "delete_interior_faces"
  /\ \E bm2 \in {nm.bm} \cup
                {[nm.bm EXCEPT !.faces = @ - 1, !.holes = h] :
                   h \in {k \in nm.bm.holes..MaxHoles : nm.bm.faces > 0}} :
       nm' = [nm EXCEPT !.pc = NextStep(nm.version, "delete_interior_faces"),
                !.steps = Append(@, "delete_interior_faces"), !.bm = bm2]
  /\ UNCHANGED <<serviceVars, repairVars, isl, batch>>

\* line 63
NMFillHoles ==
  /\ nm.pc = "fill_holes"
  /\ nm' = [nm EXCEPT !.pc = NextStep(nm.version, "fill_holes"),
                !.steps = Append(@, "fill_holes"), !.bm = fill_holes(nm.bm)]
  /\ UNCHANGED <<serviceVars, repairVars, isl, batch>>

\* lines 65-66
NMDeleteSmallIslands ==
  /\ nm.pc = "delete_small_islands"
  /\ \E kept \in {delete_small_vertex_islands(nm.bm, nm.delete_island_threshold)} :
     \E bm2 \in AfterDelete(nm.bm, nm.bm.verts \ kept.verts) :
       nm' = [nm EXCEPT !.pc = NextStep(nm.version, "delete_small_islands"),
                !.steps = Append(@, "delete_small_islands"), !.bm = bm2,
                !.at_deletion = [verts |-> nm.bm.verts, edges |-> nm.bm.edges]]
  /\ UNCHANGED <<serviceVars, repairVars, isl, batch>>

\* the meshes a merge of the two vertices of pair e can leave
AfterMerge(bm, e) ==
  {[MergeVerts(bm, MinOf(e), MaxOf(e)) EXCEPT !.faces = f] : f \in LowerFaces(bm.faces)}

\* lines 67-69, 212-238: dissolve_degenerate collapses the edge on the first
\* vertex or nothing, then the mesh is triangulated
NMDissolveDegenerate ==
  /\ nm.pc = "dissolve_degenerate"
  /\ \E bm2 \in {nm.bm} \cup
                UNION {AfterMerge(nm.bm, e) :
                         e \in {d \in nm.bm.edges : MinOf(nm.bm.verts) \in d}} :
       nm' = [nm EXCEPT !.pc = NextStep(nm.version, "dissolve_degenerate"),
                !.steps = Append(@, "dissolve_degenerate"), !.bm = triangulate(bm2)]
  /\ UNCHANGED <<serviceVars, repairVars, isl, batch>>

\* line 71: remove_doubles merges the first and the last vertex, closer than
\* merge_distance, or nothing
NMRemoveDoubles ==
  /\ nm.pc = "remove_doubles"
  /\ \E bm2 \in {nm.bm} \cup
                UNION {AfterMerge(nm.bm, e) :
                         e \in {d \in PairsOf(nm.bm.verts) :
                                  d = {MinOf(nm.bm.verts), MaxOf(nm.bm.verts)}}} :
       nm' = [nm EXCEPT !.pc = NextStep(nm.version, "remove_doubles"),
                !.steps = Append(@, "remove_doubles"), !.bm = bm2]
  /\ UNCHANGED <<serviceVars, repairVars, isl, batch>>

\* line 72, lines 101-104: fix_non_manifold and num_faces before the loop
NMMakeManifoldBegin ==
  /\ nm.pc = "make_manifold"
  /\ nm' = [nm EXCEPT !.num_faces = nm.bm.faces,
              !.steps = Append(@, "make_manifold"),
              !.pc = IF count_non_manifold_verts(nm.bm) > 0
                     THEN "make_manifold_loop"
                     ELSE NextStep(nm.version, "make_manifold")]
  /\ UNCHANGED <<serviceVars, repairVars, isl, batch>>

\* one round of `while fix_non_manifold:` (lines 105-113)
NMMakeManifoldRound ==
  /\ nm.pc = "make_manifold_loop"
  /\ \E bm2 \in TryFixManifoldOutcomes(nm.bm) :
       LET new_num_faces == bm2.faces
       IN  nm' = [nm EXCEPT !.bm = bm2, !.rounds = @ + 1,
                    !.num_faces = new_num_faces,
                    !.pc = IF LoopStops(new_num_faces, nm.num_faces)
                           THEN NextStep(nm.version, "make_manifold")
                           ELSE "make_manifold_loop"]
  /\ UNCHANGED <<serviceVars, repairVars, isl, batch>>

\* line 73: normals_make_consistent may turn face loops around
NMUnifyNormals ==
  /\ nm.pc = "unify_normals"
  /\ \E l \in {nm.bm.loops} \cup {1 - nm.bm.loops : k \in 1..nm.bm.faces} :
       nm' = [nm EXCEPT !.pc = NextStep(nm.version, "unify_normals"),
                !.steps = Append(@, "unify_normals"), !.bm = [nm.bm EXCEPT !.loops = l]]
  /\ UNCHANGED <<serviceVars, repairVars, isl, batch>>

\* lines 75-87
NMEnd ==
  /\ nm.pc = "count_after"
  /\ LET num_errors_after == count_non_manifold_verts(nm.bm)
         checksum_after == mesh_checksum_fast(MeshData(nm.bm))
     IN  nm' = [nm EXCEPT !.pc = NextStep(nm.version, "count_after"),
                  !.steps = Append(@, "count_after"),
                  !.num_errors_after = num_errors_after,
                  !.result = [changed |-> checksum_after # nm.checksum_before,
                              clean |-> num_errors_after = 0,
                              worse |-> IsWorse(num_errors_after, nm.num_errors_before),
                              set |-> TRUE]]
  /\ UNCHANGED <<serviceVars, repairVars, isl, batch>>

\* legacy (__init__.py lines 964-970): back to Object mode, return changed;
\* changed is set by every step that reported an edit, and by delete_loose
\* whenever the host returns FINISHED for it
NMLegacyEnd ==
  /\ nm.pc = "legacy_end"
  /\ \E c \in BOOLEAN :
       /\ nm' = [nm EXCEPT !.pc = NextStep(nm.version, "legacy_end"),
                    !.result = [NoNMResult EXCEPT !.changed = c, !.set = TRUE]]
  /\ UNCHANGED <<serviceVars, repairVars, isl, batch>>

NextNM ==
  \/ NMBegin \/ NMDeleteLoose \/ NMDeleteInteriorFaces \/ NMFillHoles
  \/ NMDeleteSmallIslands \/ NMDissolveDegenerate \/ NMRemoveDoubles
  \/ NMMakeManifoldBegin \/ NMMakeManifoldRound \/ NMUnifyNormals \/ NMEnd
  \/ NMLegacyEnd

SpecNM == InitNM /\ [][NextNM]_vars /\ WF_vars(NextNM)
(***************************************************************************)
(* Properties of the non-manifold repair.                                  *)
(***************************************************************************)
\* C6: the repair returns clean = (no non-manifold vertex is left),
\* worse = (more non-manifold vertices than before the repair) and
\* changed = (the checksum differs from the one taken before); an object
\* reported worse is never reported clean.
C6_ReturnedFlags ==
  nm.pc = "returned" =>
    /\ nm.result.set
    /\ nm.result.clean <=> (count_non_manifold_verts(nm.bm) = 0)
    /\ nm.result.worse <=> (count_non_manifold_verts(nm.bm) > nm.num_errors_before)
    /\ nm.result.changed <=> (mesh_checksum_fast(MeshData(nm.bm)) # nm.checksum_before)
    /\ nm.result.worse => ~nm.result.clean

\* a repair that changed the mesh and left more non-manifold vertices
C6_Witness ==
  /\ nm.pc = "returned"
  /\ nm.result.worse /\ nm.result.changed /\ ~nm.result.clean

\* the vertices of g in an island of at least t vertices or of the largest
\* vertex count
KeptVerts(g, t) ==
  LET largest == LargestIslandSize(g)
  IN  {v \in g.verts : IslandSize(g, v) >= t \/ IslandSize(g, v) = largest}

\* the island of v was the only island of the largest size in g
UniqueLargest(g, v) ==
  /\ IslandSize(g, v) = LargestIslandSize(g)
  /\ \A w \in g.verts \ Closure(g, {v}) : IslandSize(g, w) < LargestIslandSize(g)

\* the deletion step has run; it was the last step to run
AfterDeletion == \E i \in DOMAIN nm.steps : nm.steps[i] = "delete_small_islands"

RightAfterDeletion ==
  nm.steps # <<>> /\ nm.steps[Len(nm.steps)] = "delete_small_islands"

\* C9 (as amended): right after the deletion step the mesh holds exactly the
\* vertices whose island had at least delete_island_threshold vertices or
\* the largest vertex count of the mesh (islands that tie for largest all
\* stay), in islands of the size they had; from then on every remaining
\* vertex is one of those.
C9_KeptIslands ==
  AfterDeletion =>
    /\ nm.bm.verts \subseteq KeptVerts(nm.at_deletion, nm.delete_island_threshold)
    /\ RightAfterDeletion =>
         /\ nm.bm.verts = KeptVerts(nm.at_deletion, nm.delete_island_threshold)
         /\ \A v \in nm.bm.verts : IslandSize(nm.bm, v) = IslandSize(nm.at_deletion, v)

\* the deletion step has just removed an island and kept a larger one
C9_Witness ==
  /\ RightAfterDeletion
  /\ nm.bm.verts # {}
  /\ nm.bm.verts # nm.at_deletion.verts

\* C9 (as stated): once the repair has finished, no remaining island has
\* fewer vertices than the threshold unless it was the only largest island
\* when the deletion ran.
C9_Original ==
  nm.pc = "returned" =>
    \A v \in nm.bm.verts :
      IslandSize(nm.bm, v) < nm.delete_island_threshold
        => UniqueLargest(nm.at_deletion, v)

\* a round of the loop goes on exactly when it changed the number of faces
RoundStopRule ==
  (nm.pc = "make_manifold_loop" /\ nm'.rounds = nm.rounds + 1) =>
     /\ nm'.bm.faces = nm.num_faces => nm'.pc = "unify_normals"
     /\ nm'.bm.faces # nm.num_faces => nm'.pc = "make_manifold_loop"

\* C10: the make-manifold loop always ends, and it ends with the first round
\* that leaves the number of faces as it was, also when round after round
\* changes the number of faces.
C10_LoopEnds ==
  /\ [][RoundStopRule]_vars
  /\ (nm.pc = "make_manifold_loop") ~> (nm.pc = "unify_normals")

\* the loop has ended after three rounds, the first two changing the number
\* of faces
C10_Witness ==
  /\ nm.pc = "unify_normals"
  /\ nm.rounds >= 3

(***************************************************************************)
(* Repair of a mesh that has nothing to repair.                            *)
(***************************************************************************)
\* C11 (as stated): the non-manifold repair of a mesh without non-manifold
\* vertices, quads included, returns changed = false, clean = true and
\* worse = false.
C11_CleanMeshUntouched ==
  (nm.pc = "returned" /\ nm.num_errors_before = 0) =>
    /\ ~nm.result.changed
    /\ nm.result.clean
    /\ ~nm.result.worse
(***************************************************************************)
(* The checksum of two meshes that differ in one coordinate                *)
(* (main.py lines 330-355).  Coordinates are exact decimals in units of    *)
(* 0.0001; each mesh has NCoords coordinates and the same polygons.        *)
(***************************************************************************)
\* coordinates of a mesh
NCoords == 2
\* coordinate values -MaxFine..MaxFine, in units of 0.0001
MaxFine == 12
\* main.py:330  decimals=3: one quantum (0.001) is 10 units of 0.0001
FineQuantum == 10

FineValues == (0 - MaxFine)..MaxFine

Abs(x) == IF x < 0 THEN 0 - x ELSE x

\* lines 337-343 on coordinates given in units of 0.0001, lines 346-355 with
\* the hash taken as injective
mesh_checksum_decimals(co, polys) ==
  <<[i \in DOMAIN co |-> QuantizeBy(co[i], FineQuantum)], polys>>

InitChecksum ==
  /\ RepairIdle
  /\ isl = NoIslands /\ nm = NoNM /\ batch = NoBatch
  /\ cache = NoCache /\ det = NoQuery /\ grp = NoGrouping
  /\ op = NoOp /\ flt = NoFilter /\ fnm = NoFilterNM /\ sf = NoShrink
  /\ an = NoAnalysis /\ spl = NoSplit /\ bb = NoBoxes
  /\ \E a \in [1..NCoords -> FineValues], i \in 1..NCoords, y \in FineValues :
       ck = [NoMeshPair EXCEPT !.phase = "drawn", !.a = a,
                               !.b = [a EXCEPT ![i] = y], !.at = i]

\* mesh_checksum_fast(obj) on each of the two meshes
ChecksumBoth ==
  /\ ck.phase = "drawn"
  /\ ck' = [ck EXCEPT !.phase = "hashed",
                      !.ha = mesh_checksum_decimals(ck.a, 0),
                      !.hb = mesh_checksum_decimals(ck.b, 0)]
  /\ UNCHANGED exceptCk

NextChecksum == ChecksumBoth

SpecChecksum == InitChecksum /\ [][NextChecksum]_vars

\* distance of the two values of the coordinate the meshes differ in
PerturbedBy == Abs(ck.a[ck.at] - ck.b[ck.at])

\* both values are less than half a quantum away from the same multiple of
\* the quantum
NearSameMultiple ==
  \E k \in (0 - MaxFine)..MaxFine :
    /\ 2 * Abs(ck.a[ck.at] - k * FineQuantum) < FineQuantum
    /\ 2 * Abs(ck.b[ck.at] - k * FineQuantum) < FineQuantum

\* C12 (as amended): two meshes equal except in one coordinate have
\* different checksums when the two values differ by more than 0.001, and
\* equal checksums when both values are less than 0.0005 away from the same
\* multiple of 0.001.
C12_ChecksumQuantum ==
  ck.phase = "hashed" =>
    /\ PerturbedBy > FineQuantum => ck.ha # ck.hb
    /\ NearSameMultiple => ck.ha = ck.hb

\* two values more than 0.0005 and less than 0.001 apart, equal checksums
C12_Witness ==
  /\ ck.phase = "hashed"
  /\ 2 * PerturbedBy > FineQuantum
  /\ PerturbedBy < FineQuantum
  /\ NearSameMultiple
  /\ ck.ha = ck.hb

\* C12 (as stated): the checksums differ when the two values differ by more
\* than 0.0005 and are equal when they differ by less than 0.0005.
C12_Original ==
  ck.phase = "hashed" =>
    /\ 2 * PerturbedBy > FineQuantum => ck.ha # ck.hb
    /\ 2 * PerturbedBy < FineQuantum => ck.ha = ck.hb
(***************************************************************************)
(* Cached defect counts of an object (main.py lines 40-42, 163-317).       *)
(* Values of custom properties are tagged: <<"hex", c>> is the digest      *)
(* string of mesh content c, <<"int", c>> the integer that string is the   *)
(* decimal literal of, <<"zero", 0>> the string "0", None an absent value. *)
(***************************************************************************)
\* mesh contents 0..MaxContent of the object
MaxContent == 1
\* clock values 0..MaxTime, in units of 150 seconds
MaxTime == 4
\* defect counts 0..MaxCount
MaxCount == 1
\* main.py:42  _CHECKSUM_CACHE_DURATION_SECONDS = 5 * 60, in units of 150 seconds
CacheDuration == 2

Contents == 0..MaxContent
Slots == {"non_manifold", "self_intersection"}
ZeroString == <<"zero", 0>>
CountValues == {<<"count", n>> : n \in 0..MaxCount}

\* mesh_checksum_fast(obj): the hexdigest of the mesh content
Hexdigest(c) == <<"hex", c>>

\* int(s) of a digest string: a value only for a decimal literal that the
\* host can store as an integer property; ValueError / OverflowError else
IntOfDigest(checksum, decimal) ==
  IF checksum[2] \in decimal THEN <<"int", checksum[2]>> ELSE None

\* lines 163-176
clear_cached_mesh_checksum(o) == [o EXCEPT !.ck_value = None, !.ck_time = None]

\* lines 179-193: the failed conversion leaves no cache entry
set_cached_mesh_checksum(o, checksum, now, decimal) ==
  IF IntOfDigest(checksum, decimal) = None
  THEN clear_cached_mesh_checksum(o)
  ELSE [o EXCEPT !.ck_value = IntOfDigest(checksum, decimal), !.ck_time = <<"time", now>>]

\* lines 196-225: <<returned value, object afterwards>>
get_cached_mesh_checksum(o, now) ==
  IF o.type # "MESH" THEN <<None, o>>
  ELSE IF o.ck_value = None \/ o.ck_time = None THEN <<None, o>>
  ELSE IF now - o.ck_time[2] > CacheDuration
  THEN <<None, clear_cached_mesh_checksum(o)>>
  ELSE <<o.ck_value, o>>

\* lines 228-246: <<returned value, object afterwards>>
calculate_object_mesh_checksum(o, now, decimal) ==
  LET g == get_cached_mesh_checksum(o, now)
  IN  IF g[1] # None THEN g
      ELSE IF o.type # "MESH" THEN <<None, clear_cached_mesh_checksum(g[2])>>
      ELSE <<Hexdigest(o.content),
             set_cached_mesh_checksum(g[2], Hexdigest(o.content), now, decimal)>>

\* lines 249-273 with the count of one or of both slots;
\* set_stats_one_checksum keeps one checksum for the two slots
set_stats_one_checksum(o, counts, now, decimal) ==
  IF \A s \in Slots : counts[s] = None THEN o
  ELSE LET c == calculate_object_mesh_checksum(o, now, decimal)
           stored == IF c[1] # None THEN c[1] ELSE ZeroString
       IN  [c[2] EXCEPT
              !.count = [s \in Slots |-> IF counts[s] # None THEN counts[s] ELSE @[s]],
              !.checksum = [s \in Slots |-> stored]]
set_object_analysis_stats(o, counts, now, decimal) ==
  IF \A s \in Slots : counts[s] = None THEN o
  ELSE LET c == calculate_object_mesh_checksum(o, now, decimal)
           stored == IF c[1] # None THEN c[1] ELSE ZeroString
       IN  [c[2] EXCEPT
              !.count = [s \in Slots |-> IF counts[s] # None THEN counts[s] ELSE @[s]],
              !.checksum = [s \in Slots |-> IF counts[s] # None THEN stored ELSE @[s]]]

\* lines 276-298: <<returned value, object afterwards>>
get_validated_object_stat(o, s, now, decimal) ==
  IF o.count[s] = None \/ o.checksum[s] = None \/ o.checksum[s] = ZeroString
  THEN <<None, o>>
  ELSE LET c == calculate_object_mesh_checksum(o, now, decimal)
       IN  IF c[1] = None \/ c[1] # o.checksum[s] THEN <<None, c[2]>>
           ELSE <<o.count[s], c[2]>>

NoProps == [s \in Slots |-> None]

\* an object without cached values; decimal: the contents whose digest
\* string int() converts
InitCache ==
  /\ RepairIdle
  /\ isl = NoIslands /\ nm = NoNM /\ batch = NoBatch
  /\ ck = NoMeshPair /\ det = NoQuery /\ grp = NoGrouping
  /\ op = NoOp /\ flt = NoFilter /\ fnm = NoFilterNM /\ sf = NoShrink
  /\ an = NoAnalysis /\ spl = NoSplit /\ bb = NoBoxes
  /\ \E ty \in {"MESH", "OTHER"}, c \in Contents, D \in SUBSET Contents :
       /\ ty = "OTHER" => c = 0
       /\ cache = [live |-> TRUE,
                   obj |-> [type |-> ty, content |-> c, ck_value |-> None,
                            ck_time |-> None, count |-> NoProps,
                            checksum |-> NoProps],
                   now |-> 0, decimal |-> D, last |-> None,
                   stored_content |-> [s \in Slots |-> 0 - 1]]

\* set_object_analysis_stats(obj, ...) after an analysis or a filter query
\* (analyze.py line 184, filter_intersections.py line 140,
\* filter_non_manifold.py line 136)
CacheStore ==
  /\ cache.live
  /\ \E counts \in [Slots -> CountValues \cup {None}] :
       /\ \E s \in Slots : counts[s] # None
       /\ cache' = [cache EXCEPT
            !.obj = set_object_analysis_stats(cache.obj, counts, cache.now, cache.decimal),
            !.stored_content =
               [s \in Slots |-> IF counts[s] # None THEN cache.obj.content ELSE @[s]],
            !.last = None]
  /\ UNCHANGED exceptCache

\* get_cached_non_manifold_count / get_cached_self_intersection_count
\* (lines 301-317)
CacheRead ==
  /\ cache.live
  /\ \E s \in Slots :
       LET r == get_validated_object_stat(cache.obj, s, cache.now, cache.decimal)
       IN  cache' = [cache EXCEPT !.obj = r[2], !.last = <<"read", s, r[1]>>]
  /\ UNCHANGED exceptCache

\* the panel asks for the checksum of the active object (gui.py line 27)
CachePanelChecksum ==
  /\ cache.live
  /\ cache' = [cache EXCEPT
       !.obj = calculate_object_mesh_checksum(cache.obj, cache.now, cache.decimal)[2],
       !.last = None]
  /\ UNCHANGED exceptCache

\* the user or a repair changes the structure of the mesh
CacheEditMesh ==
  /\ cache.live
  /\ cache.obj.type = "MESH"
  /\ \E c \in Contents \ {cache.obj.content} :
       cache' = [cache EXCEPT !.obj = [@ EXCEPT !.content = c], !.last = None]
  /\ UNCHANGED exceptCache

\* 150 seconds pass
CacheTick ==
  /\ cache.live
  /\ cache.now < MaxTime
  /\ cache' = [cache EXCEPT !.now = @ + 1, !.last = None]
  /\ UNCHANGED exceptCache

NextCache == CacheStore \/ CacheRead \/ CachePanelChecksum \/ CacheEditMesh \/ CacheTick

SpecCache == InitCache /\ [][NextCache]_vars

\* the digest a stored checksum stands for, as a string or as its integer
DigestOf(stored) == <<"hex", stored[2]>>

\* C13 (as stated): a cached read returns a count only if the checksum
\* recomputed from the current mesh content equals the checksum stored with
\* the count, and returns no value when the mesh content is not the one the
\* count was stored for.
C13_CachedReadIsCurrent ==
  cache.last[1] = "read" =>
    /\ cache.last[3] # None
         => DigestOf(cache.obj.checksum[cache.last[2]]) = Hexdigest(cache.obj.content)
    /\ cache.obj.content # cache.stored_content[cache.last[2]]
         => cache.last[3] = None
(***************************************************************************)
(* The intersection detectors (t4p_clean/main.py lines 358-377,            *)
(* t4p_clean/lib.py lines 15-37, t4p_smooth_intersection/main.py lines     *)
(* 148-172).  A mesh is its triangles, each the set of its three vertices. *)
(* BVHTree.overlap of a tree with itself is the host's: it returns pairs   *)
(* of different faces that cross each other, in either order, and leaves   *)
(* out the pairs that have two or more vertices in common.                 *)
(***************************************************************************)
\* vertices 1..NDetVerts of the queried mesh
NDetVerts == 6
\* most faces of the queried mesh
NDetFaces == 3

Triangles == {t \in SUBSET (1..NDetVerts) : Cardinality(t) = 3}

\* the pairs tree.overlap(tree) can return for the faces
HostOverlapPairs(faces) ==
  {p \in (DOMAIN faces) \X (DOMAIN faces) :
     /\ p[1] # p[2]
     /\ Cardinality(faces[p[1]] \cap faces[p[2]]) <= 1}

\* main.py lines 358-377 and lib.py lines 15-37: every index of every pair
bmesh_check_self_intersect_object(faces, overlap) ==
  IF Len(faces) = 0 THEN {}
  ELSE {p[1] : p \in overlap} \cup {p[2] : p \in overlap}

\* the test that lets a pair add its faces (legacy main.py lines 158-166)
PairCounts(faces, a, b) ==
  /\ ~(a = b \/ b < a)
  /\ faces[a] \cap faces[b] = {}

\* legacy main.py lines 148-172
get_intersecting_face_indices(faces, overlap) ==
  IF Len(faces) = 0 THEN {}
  ELSE UNION {{p[1], p[2]} : p \in {q \in overlap : PairCounts(faces, q[1], q[2])}}

InitDetect ==
  /\ RepairIdle
  /\ isl = NoIslands /\ nm = NoNM /\ batch = NoBatch
  /\ ck = NoMeshPair /\ cache = NoCache /\ grp = NoGrouping
  /\ op = NoOp /\ flt = NoFilter /\ fnm = NoFilterNM /\ sf = NoShrink
  /\ an = NoAnalysis /\ spl = NoSplit /\ bb = NoBoxes
  /\ \E n \in 0..NDetFaces :
     \E faces \in [1..n -> Triangles] :
     \E overlap \in SUBSET HostOverlapPairs(faces) :
       det = [NoQuery EXCEPT !.phase = "built", !.faces = faces, !.overlap = overlap]

\* bmesh_get_intersecting_face_indices(bm) / bmesh_check_self_intersect_object(bm)
DetectClean ==
  /\ det.phase = "built"
  /\ det' = [det EXCEPT !.phase = "done", !.which = "clean",
                        !.out = bmesh_check_self_intersect_object(det.faces, det.overlap)]
  /\ UNCHANGED exceptDet

\* _get_intersecting_face_indices(bm)
DetectLegacy ==
  /\ det.phase = "built"
  /\ det' = [det EXCEPT !.phase = "done", !.which = "legacy",
                        !.out = get_intersecting_face_indices(det.faces, det.overlap)]
  /\ UNCHANGED exceptDet

NextDetect == DetectClean \/ DetectLegacy

SpecDetect == InitDetect /\ [][NextDetect]_vars

\* the face is in an overlap pair of two faces without a common vertex
InDisjointPair(f) ==
  \E p \in det.overlap :
    /\ f \in {p[1], p[2]}
    /\ det.faces[p[1]] \cap det.faces[p[2]] = {}

\* C14 (as stated): a face is in the detector's result only if it belongs
\* to an overlap pair whose two faces share no vertex.
C14_OnlyDisjointPairs ==
  det.phase = "done" => \A f \in det.out : InDisjointPair(f)
(***************************************************************************)
(* The component groupers: _get_mesh_vertex_islands                        *)
(* (clean_non_manifold.py lines 127-164), get_bmesh_islands (lines         *)
(* 241-273), _get_selected_visible_face_islands (clean_intersections.py    *)
(* lines 275-311).  The mesh: faces 1..n in index order, each the set of   *)
(* its three vertices; the edges are the sides of the faces; every element *)
(* carries its own index.                                                  *)
(***************************************************************************)
\* vertices 1..NGrpVerts of the grouped mesh
NGrpVerts == 5
\* most faces of the grouped mesh
NGrpFaces == 3

GrpTriangles == {t \in SUBSET (1..NGrpVerts) : Cardinality(t) = 3}

\* face.edges of a triangle, as vertex pairs
EdgesOf(t) ==
  LET a == MinOf(t)
      c == MaxOf(t)
      b == CHOOSE x \in t : x # a /\ x # c
  IN  <<{a, b}, {b, c}, {a, c}>>

\* edge.link_faces: the faces on the edge, in index order
FacesOn(faces, e) == SortedSeq({g \in DOMAIN faces : e \subseteq faces[g]})

\* `for edge in current.edges: for linked_face in edge.link_faces`
LinkSeq(faces, f) ==
  FacesOn(faces, EdgesOf(faces[f])[1]) \o FacesOn(faces, EdgesOf(faces[f])[2])
    \o FacesOn(faces, EdgesOf(faces[f])[3])

\* clean_intersections.py lines 282, 298-300: selected and not hidden
IsRegionFaceAny(m, g) == TRUE
IsRegionFace(m, g) == g \in m.select /\ g \notin m.hide

\* one pass through `while stack:` (clean_intersections.py lines 289-304);
\* st is [m, stack, visited, island]
SelectedFloodStep(st) ==
  LET current == st.stack[Len(st.stack)]
      rest == SubSeq(st.stack, 1, Len(st.stack) - 1)
      seen == st.visited \cup {current}
      pushed == SelectSeq(LinkSeq(st.m.faces, current),
                          LAMBDA g : IsRegionFace(st.m, g) /\ g \notin seen)
  IN  IF current \in st.visited THEN [st EXCEPT !.stack = rest]
      ELSE [st EXCEPT !.stack = rest \o pushed, !.visited = seen,
                      !.island = Append(@, current)]

RECURSIVE SelectedFlood(_)
SelectedFlood(st) ==
  IF st.stack = <<>> THEN st ELSE SelectedFlood(SelectedFloodStep(st))

\* the `for face in bm.faces` loop (clean_intersections.py lines 282-309);
\* st is [m, todo, visited, islands]
RECURSIVE SelectedIslandsFrom(_)
SelectedIslandsFrom(st) ==
  IF st.todo = <<>> THEN st.islands
  ELSE IF ~IsRegionFace(st.m, Head(st.todo)) \/ Head(st.todo) \in st.visited
  THEN SelectedIslandsFrom([st EXCEPT !.todo = Tail(@)])
  ELSE LET r == SelectedFlood([m |-> st.m, stack |-> <<Head(st.todo)>>,
                               visited |-> st.visited, island |-> <<>>])
       IN  SelectedIslandsFrom([st EXCEPT !.todo = Tail(@), !.visited = r.visited,
                                          !.islands = IF r.island = <<>> THEN @
                                                      ELSE Append(@, r.island)])

\* clean_intersections.py lines 275-311
get_selected_visible_face_islands(m) ==
  SelectedIslandsFrom([m |-> m, todo |-> [i \in 1..Len(m.faces) |-> i],
                       visited |-> {}, islands |-> <<>>])

\* the untagged faces of s, each once, in the order they come
FirstUntagged(s, tag) ==
  LET idx == {i \in DOMAIN s : s[i] \notin tag /\ \A j \in 1..(i - 1) : s[j] # s[i]}
      order == SortedSeq(idx)
  IN  [k \in DOMAIN order |-> s[order[k]]]

\* one pass through `while q:` (clean_non_manifold.py lines 263-269);
\* st is [m, q, tag, island]
TagFloodStep(st) ==
  LET cur == Head(st.q)
      new == FirstUntagged(LinkSeq(st.m.faces, cur), st.tag)
  IN  [st EXCEPT !.q = Tail(@) \o new, !.island = Append(@, cur),
                 !.tag = @ \cup {new[k] : k \in DOMAIN new}]

RECURSIVE TagFlood(_)
TagFlood(st) == IF st.q = <<>> THEN st ELSE TagFlood(TagFloodStep(st))

\* the `for f in bm.faces` loop (clean_non_manifold.py lines 256-271);
\* st is [m, todo, tag, islands]
RECURSIVE TagIslandsFrom(_)
TagIslandsFrom(st) ==
  IF st.todo = <<>> THEN st.islands
  ELSE IF Head(st.todo) \in st.tag
  THEN TagIslandsFrom([st EXCEPT !.todo = Tail(@)])
  ELSE LET r == TagFlood([m |-> st.m, q |-> <<Head(st.todo)>>,
                          tag |-> st.tag \cup {Head(st.todo)}, island |-> <<>>])
       IN  TagIslandsFrom([st EXCEPT !.todo = Tail(@), !.tag = r.tag,
                                     !.islands = Append(@, r.island)])

\* clean_non_manifold.py lines 241-273
get_bmesh_islands(m) ==
  TagIslandsFrom([m |-> m, todo |-> [i \in 1..Len(m.faces) |-> i],
                  tag |-> {}, islands |-> <<>>])

\* the vertices and edges of the mesh
VertexGraph(m) ==
  [verts |-> 1..NGrpVerts,
   edges |-> {e \in PairsOf(1..NGrpVerts) : \E g \in DOMAIN m.faces : e \subseteq m.faces[g]}]

\* the faces of region R, two of them joined when they share an edge
FaceGraph(m, R) ==
  [verts |-> R,
   edges |-> {p \in PairsOf(R) :
                \E e \in PairsOf(1..NGrpVerts) : \A g \in p : e \subseteq m.faces[g]}]

InitGroup ==
  /\ RepairIdle
  /\ isl = NoIslands /\ nm = NoNM /\ batch = NoBatch
  /\ ck = NoMeshPair /\ cache = NoCache /\ det = NoQuery
  /\ op = NoOp /\ flt = NoFilter /\ fnm = NoFilterNM /\ sf = NoShrink
  /\ an = NoAnalysis /\ spl = NoSplit /\ bb = NoBoxes
  /\ \E n \in 0..NGrpFaces :
     \E faces \in [1..n -> GrpTriangles], sel \in SUBSET (1..n), hid \in SUBSET (1..n) :
       grp = [NoGrouping EXCEPT !.phase = "mesh", !.faces = faces, !.select = sel,
                                !.hide = hid]

\* _get_mesh_vertex_islands(bm)
GroupVertices ==
  /\ grp.phase = "mesh"
  /\ LET islands == get_mesh_vertex_islands(VertexGraph(grp))
     IN  grp' = [grp EXCEPT !.phase = "grouped", !.which = "vertices",
                   !.islands = [k \in DOMAIN islands |-> SortedSeq(islands[k])]]
  /\ UNCHANGED exceptGrp

\* get_bmesh_islands(bm)
GroupFaces ==
  /\ grp.phase = "mesh"
  /\ grp' = [grp EXCEPT !.phase = "grouped", !.which = "faces",
                        !.islands = get_bmesh_islands(grp)]
  /\ UNCHANGED exceptGrp

\* _get_selected_visible_face_islands(bm)
GroupSelectedFaces ==
  /\ grp.phase = "mesh"
  /\ grp' = [grp EXCEPT !.phase = "grouped", !.which = "selected",
                        !.islands = get_selected_visible_face_islands(grp)]
  /\ UNCHANGED exceptGrp

NextGroup == GroupVertices \/ GroupFaces \/ GroupSelectedFaces

SpecGroup == InitGroup /\ [][NextGroup]_vars

\* the region the grouper floods
GroupRegion ==
  IF grp.which = "vertices" THEN 1..NGrpVerts
  ELSE IF grp.which = "faces" THEN DOMAIN grp.faces
  ELSE {g \in DOMAIN grp.faces : g \in grp.select /\ g \notin grp.hide}

\* the elements of the region with the links between them
GroupGraph ==
  IF grp.which = "vertices" THEN VertexGraph(grp) ELSE FaceGraph(grp, GroupRegion)

\* the positions <<island, place in the island>> of the result
GroupPlaces == UNION {{<<k, i>> : i \in DOMAIN grp.islands[k]} : k \in DOMAIN grp.islands}

IslandOf(x) == CHOOSE k \in DOMAIN grp.islands : \E i \in DOMAIN grp.islands[k] : grp.islands[k][i] = x

NObjects == 3

Objects == 1..NObjects

Kinds == {"clean_intersections", "clean_non_manifold", "analyze",
          "filter_intersections", "triangulate", "batch_decimate"}

\* list(context.selected_objects)
selected_objects(o) == SortedSeq(o.selected)

\* scene.objects.get(obj.name) is not None
in_scene(o, obj) == obj \in o.scene

\* self.report({level}, text); says: the count the text states, if any
Report(level, msg, says) == [level |-> level, msg |-> msg, says |-> says]

\* self.report(...) followed by return {ret}
Return(o, ret, level, msg, says) ==
  [o EXCEPT !.pc = "done", !.ret = ret,
            !.reports = Append(@, Report(level, msg, says))]

\* an exception leaves the handler: nothing after the raising call runs
Raise(o, obj) ==
  [o EXCEPT !.pc = "done", !.ret = "exception", !.calls[obj] = "raised"]

\* the test every operator makes first
NotInAnyMode(o) == FALSE
NotInObjectMode(o) == o.mode # "OBJECT"

\* modal_utils.py lines 21-33
start_modal(o) ==
  [o EXCEPT !.timer = TRUE, !.progress = TRUE, !.pc = "modal", !.ret = "RUNNING_MODAL"]

\* modal_utils.py lines 41-52
stop_modal(o) == [o EXCEPT !.timer = FALSE, !.progress = FALSE]

\* bpy.ops.object.select_all(action="DESELECT")
deselect_all(o) == [o EXCEPT !.selected = {}]

\* the objects of a list that are still in the scene get selected;
\* select_listed selects every object of the list
select_listed(o, objs) ==
  [o EXCEPT !.selected = @ \cup {objs[i] : i \in DOMAIN objs}]
select_available(o, objs) ==
  [o EXCEPT !.selected = @ \cup {objs[i] : i \in {j \in DOMAIN objs : in_scene(o, objs[j])}}]

\* the initial active object if it is still in the scene, else None
restore_active_object(o) ==
  [o EXCEPT !.active = IF o.initial_active # 0 /\ in_scene(o, o.initial_active)
                       THEN o.initial_active ELSE 0]

\* the initial active object if it is still in the scene, else no change
keep_active_object(o) ==
  [o EXCEPT !.active = IF o.initial_active # 0 /\ in_scene(o, o.initial_active)
                       THEN o.initial_active ELSE @]

\* the mesh objects of a list that are in the scene
mesh_objects(o, objs) ==
  SelectSeq(objs, LAMBDA x : o.types[x] = "MESH" /\ in_scene(o, x))

\* ---- clean non-manifold (clean_non_manifold.py) ----

\* lines 395-408
nm_restore_initial_selection(o) ==
  LET s1 == deselect_all(o)
  IN  IF o.initial_selection = <<>> THEN [s1 EXCEPT !.active = 0]
      ELSE restore_active_object(select_available(s1, o.initial_selection))

\* lines 421-436, each report with the counts its text states
nm_report_results(o) ==
  [k \in DOMAIN report_results(o) |->
     Report(report_results(o)[k].level, report_results(o)[k].msg,
            IF report_results(o)[k].msg = "no_mesh_objects" THEN None
            ELSE <<"count", o.num_fixed + o.num_worse>>)]

\* lines 378-393
nm_finish_modal(o, cancelled) ==
  LET s1 == stop_modal(o)
  IN  IF cancelled
      THEN Return(nm_restore_initial_selection(s1), "CANCELLED", "WARNING",
                  "cancelled_before_completion", None)
      ELSE LET s2 == restore_active_object(s1)
           IN  [s2 EXCEPT !.pc = "done", !.ret = "FINISHED",
                          !.reports = @ \o nm_report_results(s2)]

\* lines 312-344
nm_begin(o) ==
  IF NotInObjectMode(o)
  THEN Return(o, "CANCELLED", "ERROR", "switch_to_object_mode", None)
  ELSE IF selected_objects(o) = <<>>
  THEN Return(o, "FINISHED", "INFO", "no_objects_selected", None)
  ELSE LET sel == selected_objects(o)
           todo == mesh_objects(o, sel)
           s1 == deselect_all([o EXCEPT !.initial_selection = sel,
                                        !.initial_active = o.active,
                                        !.objects_to_process = todo,
                                        !.num_candidates = Len(todo)])
       IN  IF todo = <<>> THEN nm_finish_modal(s1, FALSE) ELSE start_modal(s1)

\* lines 359-376, with _clean_object_non_manifold (lines 40-87) returning r,
\* or its first host call, mode_set(mode="EDIT") at line 50, raising
nm_process_object(o, obj, r) ==
  IF ~in_scene(o, obj) THEN o
  ELSE LET s1 == [o EXCEPT !.active = obj, !.selected = @ \cup {obj}]
       IN  IF obj \in o.raising THEN Raise(s1, obj)
           ELSE count_object([s1 EXCEPT !.applied[obj] = "complete"], r)

\* ---- analyze (analyze.py) ----

\* lines 62-78
restore_object_selection(o) ==
  restore_active_object(select_available(deselect_all(o), o.initial_selection))

\* lines 192-219
analyze_finish_modal(o, cancelled) ==
  LET s1 == restore_object_selection(stop_modal(o))
  IN  IF cancelled
      THEN Return(s1, "CANCELLED", "WARNING", "cancelled_before_all_processed", None)
      ELSE IF o.listed # <<>>
      THEN Return(s1, "FINISHED", "INFO", "analyzed_objects", <<"count", Len(o.listed)>>)
      ELSE Return(s1, "FINISHED", "INFO", "none_could_be_analyzed", None)

\* lines 119-150
analyze_begin(o) ==
  IF NotInObjectMode(o)
  THEN Return(o, "CANCELLED", "ERROR", "switch_to_object_mode", None)
  ELSE IF selected_objects(o) = <<>>
  THEN Return(o, "FINISHED", "INFO", "no_objects_selected", None)
  ELSE IF mesh_objects(o, selected_objects(o)) = <<>>
  THEN Return(o, "FINISHED", "INFO", "no_mesh_objects", None)
  ELSE start_modal(deselect_all(
         [o EXCEPT !.initial_selection = selected_objects(o),
                   !.initial_active = o.active,
                   !.objects_to_process = mesh_objects(o, selected_objects(o))]))

\* lines 161-190
analyze_process_object(o, obj) ==
  IF ~in_scene(o, obj) THEN o
  ELSE IF obj \in o.raising
  THEN [o EXCEPT !.active = obj, !.selected = @ \ {obj}]
  ELSE [o EXCEPT !.active = obj, !.selected = @ \ {obj},
                 !.applied[obj] = "complete", !.listed = Append(@, obj)]

\* ---- filter intersections (filter_intersections.py) ----

\* lines 179-196
filter_restore_initial_selection(o) ==
  restore_active_object(select_available(deselect_all(o), o.initial_selection))

\* lines 198-207
determine_new_active(o) ==
  IF o.initial_active # 0 /\ \E k \in DOMAIN o.listed : o.listed[k] = o.initial_active
  THEN o.initial_active
  ELSE IF o.listed # <<>> THEN o.listed[1] ELSE 0

\* lines 145-177
filter_finish_modal(o, cancelled) ==
  LET s1 == stop_modal(o)
  IN  IF cancelled
      THEN Return(filter_restore_initial_selection(s1), "CANCELLED", "WARNING",
                  "cancelled_before_completion", None)
      ELSE LET s2 == [s1 EXCEPT !.selected = @ \cup {o.listed[k] : k \in DOMAIN o.listed},
                                !.active = determine_new_active(o)]
               gone == {k \in DOMAIN o.listed : ~in_scene(o, o.listed[k])}
           IN  IF gone # {}
               THEN \* select_set raises for an object that left the view layer
                    Raise(s1, o.listed[CHOOSE k \in gone : \A j \in gone : k <= j])
               ELSE IF o.listed = <<>>
               THEN IF o.mesh_candidates = 0
                    THEN Return(s2, "FINISHED", "WARNING", "no_mesh_objects", None)
                    ELSE Return(s2, "FINISHED", "INFO", "none_detected", None)
               ELSE Return(s2, "FINISHED", "INFO", "n_of_m_with_intersections",
                           <<"count", Len(o.listed)>>)

\* lines 74-93
filter_begin(o) ==
  IF NotInObjectMode(o)
  THEN Return(o, "CANCELLED", "ERROR", "switch_to_object_mode", None)
  ELSE IF selected_objects(o) = <<>>
  THEN Return(o, "FINISHED", "INFO", "no_objects_selected", None)
  ELSE start_modal(deselect_all(
         [o EXCEPT !.initial_active = o.active,
                   !.initial_selection = selected_objects(o),
                   !.objects_to_process = selected_objects(o)]))

\* lines 105-143; cached: a count is cached for the object's checksum,
\* found: the count, cached or queried, is positive
filter_process_object(o, obj, cached, found) ==
  IF o.types[obj] # "MESH" THEN o
  ELSE IF ~in_scene(o, obj) THEN o
  ELSE LET s1 == [o EXCEPT !.mesh_candidates = @ + 1]
           lst == IF found THEN Append(o.listed, obj) ELSE o.listed
       IN  IF cached THEN [s1 EXCEPT !.listed = lst, !.applied[obj] = "complete"]
           ELSE IF obj \in o.raising
           THEN [s1 EXCEPT !.active = obj, !.selected = @ \ {obj}]
           ELSE [s1 EXCEPT !.active = obj, !.selected = @ \ {obj},
                           !.listed = lst, !.applied[obj] = "complete"]

\* ---- triangulate (triangulate.py) ----

\* lines 114-141
triangulate_finish_modal(o, cancelled) ==
  LET s1 == keep_active_object(stop_modal(o))
  IN  IF cancelled
      THEN Return(s1, "CANCELLED", "WARNING", "cancelled_before_all_processed", None)
      ELSE IF o.mesh_candidates = 0
      THEN Return(s1, "FINISHED", "INFO", "no_mesh_objects", None)
      ELSE IF o.triangulated_count = 0
      THEN Return(s1, "FINISHED", "INFO", "no_faces_to_triangulate", None)
      ELSE Return(s1, "FINISHED", "INFO", "triangulated_n",
                  <<"count", o.triangulated_count>>)

\* lines 65-79
triangulate_begin(o) ==
  IF NotInObjectMode(o)
  THEN Return(o, "CANCELLED", "ERROR", "switch_to_object_mode", None)
  ELSE IF selected_objects(o) = <<>>
  THEN Return(o, "FINISHED", "INFO", "no_objects_selected", None)
  ELSE start_modal([o EXCEPT !.objects_to_process = selected_objects(o),
                             !.initial_active = o.active])

\* lines 89-112; grew: the triangulation added faces
triangulate_process_object(o, obj, grew) ==
  IF o.types[obj] # "MESH" THEN o
  ELSE IF ~in_scene(o, obj) THEN o
  ELSE [o EXCEPT !.applied[obj] = "complete",
                 !.mesh_candidates = @ + 1,
                 !.triangulated_count = IF grew THEN @ + 1 ELSE @]

\* ---- batch decimate (batch_decimate.py) ----

\* lines 133-157
decimate_finish_modal(o, cancelled) ==
  LET s1 == keep_active_object(stop_modal(o))
  IN  IF cancelled
      THEN Return(s1, "CANCELLED", "WARNING", "cancelled_after_n_of_m",
                  <<"count", Len(o.listed)>>)
      ELSE IF o.listed # <<>>
      THEN Return(s1, "FINISHED", "INFO", "decimated", <<"count", Len(o.listed)>>)
      ELSE Return(s1, "FINISHED", "INFO", "could_not_be_applied", None)

\* lines 65-87, with _collect_mesh_objects (lines 97-103)
decimate_begin(o) ==
  IF NotInObjectMode(o)
  THEN Return(o, "CANCELLED", "ERROR", "switch_to_object_mode", None)
  ELSE IF ~o.ratio_ok
  THEN Return(o, "CANCELLED", "ERROR", "ratio_out_of_range", None)
  ELSE IF SelectSeq(selected_objects(o), LAMBDA x : o.types[x] = "MESH") = <<>>
  THEN Return(o, "FINISHED", "INFO", "no_mesh_objects", None)
  ELSE start_modal(
         [o EXCEPT !.objects_to_process =
                     SelectSeq(selected_objects(o), LAMBDA x : o.types[x] = "MESH"),
                   !.initial_active = o.active])

\* lines 105-131: modifiers.new or modifier_apply raising is caught and the
\* modifier removed
decimate_process_object(o, obj) ==
  IF ~in_scene(o, obj) THEN o
  ELSE IF obj \in o.raising THEN [o EXCEPT !.active = obj]
  ELSE [o EXCEPT !.active = obj, !.applied[obj] = "complete",
                 !.listed = Append(@, obj)]

\* ---- clean intersections (clean_intersections.py) ----

\* lines 527-540: the loop over the initial selection from position i on;
\* _clean_mesh_intersections_wrapper (lines 421-427) raises at its
\* mode_set(mode="EDIT") for an object the host refuses to edit, and at
\* select_faces (line 478, two arguments for three parameters) for an
\* object with intersecting faces left after the split pass
\* lines 421-428: what the wrapper returns for an object its engine
\* returns for: the pair (changed, clean)
clean_mesh_intersections_wrapper(o, obj) == <<obj \in o.altered, TRUE>>

\* `if attempts:` (line 539): the truth value of a Python tuple, which is
\* false for the empty tuple only; attempts_changed is the test of the
\* pair's first item instead
attempts_changed(attempts) == attempts[1]
attempts_truthy(attempts) == Len(attempts) > 0

RECURSIVE smooth_objects(_, _, _)
smooth_objects(o, sel, i) ==
  IF i > Len(sel) THEN o
  ELSE IF o.types[sel[i]] # "MESH" THEN smooth_objects(o, sel, i + 1)
  ELSE IF ~in_scene(o, sel[i]) THEN smooth_objects(o, sel, i + 1)
  ELSE IF sel[i] \in o.raising
  THEN Raise([o EXCEPT !.active = sel[i], !.selected = @ \cup {sel[i]}], sel[i])
  ELSE IF sel[i] \in o.stubborn
  THEN Raise([o EXCEPT !.active = sel[i], !.selected = @ \cup {sel[i]},
                       !.mode = "EDIT", !.applied[sel[i]] = "partial"], sel[i])
  ELSE LET attempts == clean_mesh_intersections_wrapper(o, sel[i])
       IN  smooth_objects([o EXCEPT !.active = sel[i], !.selected = @ \ {sel[i]},
                                    !.applied[sel[i]] = "complete",
                                    !.calls[sel[i]] = "returned",
                                    !.listed = IF attempts_truthy(attempts)
                                               THEN Append(@, sel[i]) ELSE @],
                          sel, i + 1)

\* lines 548-551
smooth_restore_active(o) ==
  [o EXCEPT !.active = IF o.initial_active # 0 /\ in_scene(o, o.initial_active)
                       THEN o.initial_active
                       ELSE IF o.initial_active = 0 THEN 0 ELSE @]

\* lines 509-596
smooth_execute(o) ==
  IF NotInObjectMode(o)
  THEN Return(o, "CANCELLED", "ERROR", "switch_to_object_mode", None)
  ELSE LET s0 == [o EXCEPT !.initial_active = o.active,
                           !.initial_selection = selected_objects(o)]
           s1 == smooth_objects(s0, s0.initial_selection, 1)
           s2 == smooth_restore_active(select_available(deselect_all(s1), s1.initial_selection))
       IN  IF s1.ret = "exception" THEN s1
           ELSE IF s1.listed = <<>>
           THEN Return(s2, "FINISHED", "INFO", "no_intersecting_faces_found", None)
           ELSE Return(s2, "FINISHED", "INFO", "smoothed_on", <<"count", Len(s1.listed)>>)

\* ---- the handlers the host calls ----

\* invoke / execute of the operator of o.kind
begin(o) ==
  CASE o.kind = "clean_intersections" -> smooth_execute(o)
    [] o.kind = "clean_non_manifold" -> nm_begin(o)
    [] o.kind = "analyze" -> analyze_begin(o)
    [] o.kind = "filter_intersections" -> filter_begin(o)
    [] o.kind = "triangulate" -> triangulate_begin(o)
    [] o.kind = "batch_decimate" -> decimate_begin(o)

\* self._process_object(context, obj) of the operator of o.kind
process_object(o, obj, r, cached, found) ==
  CASE o.kind = "clean_non_manifold" -> nm_process_object(o, obj, r)
    [] o.kind = "analyze" -> analyze_process_object(o, obj)
    [] o.kind = "filter_intersections" -> filter_process_object(o, obj, cached, found)
    [] o.kind = "triangulate" -> triangulate_process_object(o, obj, found)
    [] o.kind = "batch_decimate" -> decimate_process_object(o, obj)

\* self._finish_modal(context, cancelled=...) of the operator of o.kind
finish_modal_of(o, cancelled) ==
  CASE o.kind = "clean_non_manifold" -> nm_finish_modal(o, cancelled)
    [] o.kind = "analyze" -> analyze_finish_modal(o, cancelled)
    [] o.kind = "filter_intersections" -> filter_finish_modal(o, cancelled)
    [] o.kind = "triangulate" -> triangulate_finish_modal(o, cancelled)
    [] o.kind = "batch_decimate" -> decimate_finish_modal(o, cancelled)

\* state.current_index += 1
KeepIndex(o) == o
AdvanceIndex(o) == [o EXCEPT !.current_index = @ + 1]

\* modal(self, context, event): the same text in the five modal operators
\* (clean_non_manifold.py lines 295-310); an event other than ESC and TIMER
\* changes nothing
modal(o, event, r, cached, found) ==
  IF event = "ESC" THEN finish_modal_of(o, TRUE)
  ELSE IF event # "TIMER" THEN o
  ELSE IF o.current_index >= Len(o.objects_to_process) THEN finish_modal_of(o, FALSE)
  ELSE LET obj == o.objects_to_process[o.current_index + 1]
           s1 == process_object(o, obj, r, cached, found)
       IN  IF s1.ret = "exception" THEN s1
           ELSE AdvanceIndex([s1 EXCEPT !.calls[obj] = "returned"])

InitOps ==
  /\ RepairIdle
  /\ isl = NoIslands /\ nm = NoNM /\ batch = NoBatch
  /\ ck = NoMeshPair /\ cache = NoCache /\ det = NoQuery /\ grp = NoGrouping
  /\ flt = NoFilter /\ fnm = NoFilterNM /\ sf = NoShrink
  /\ an = NoAnalysis /\ spl = NoSplit /\ bb = NoBoxes
  /\ \E k \in Kinds, m \in {"OBJECT", "EDIT"}, ty \in [Objects -> {"MESH", "OTHER"}],
        sel \in SUBSET Objects, act \in {0} \cup Objects, ok \in BOOLEAN :
     \E bad \in SUBSET {x \in Objects : ty[x] = "MESH"},
        stub \in SUBSET {x \in Objects : ty[x] = "MESH"},
        alt \in SUBSET {x \in Objects : ty[x] = "MESH"} :
       /\ k # "batch_decimate" => ok
       /\ k # "clean_intersections" => (stub = {} /\ alt = {})
       /\ bad \cap stub = {}
       /\ alt \cap (bad \cup stub) = {}
       /\ op = [NoOp EXCEPT !.pc = "invoked", !.kind = k, !.mode = m, !.ratio_ok = ok,
                            !.types = ty, !.raising = bad, !.stubborn = stub, !.altered = alt,
                            !.scene = Objects, !.selected = sel, !.active = act,
                            !.applied = [x \in Objects |-> "not_run"],
                            !.calls = [x \in Objects |-> "none"],
                            !.at_invoke = [mode |-> m, selected |-> sel, active |-> act]]

\* the host calls invoke / execute
OpBegin ==
  /\ op.pc = "invoked"
  /\ op' = begin(op)
  /\ UNCHANGED exceptOp

\* the host delivers a TIMER event to modal()
OpTimer ==
  /\ op.pc = "modal"
  /\ \E r \in NMReturns, cached \in BOOLEAN, found \in BOOLEAN :
       op' = modal(op, "TIMER", r, cached, found)
  /\ UNCHANGED exceptOp

\* the host delivers an ESC event to modal()
OpEsc ==
  /\ op.pc = "modal"
  /\ op' = modal(op, "ESC", <<FALSE, FALSE, FALSE>>, FALSE, FALSE)
  /\ UNCHANGED exceptOp

\* between two events an object leaves the scene (the case the scene
\* lookups of the per-object steps test for)
OpObjectRemoved ==
  /\ op.pc = "modal"
  /\ \E x \in op.scene :
       op' = [op EXCEPT !.scene = @ \ {x}, !.selected = @ \ {x},
                        !.active = IF @ = x THEN 0 ELSE @]
  /\ UNCHANGED exceptOp

\* the host delivers any other event (mouse, keyboard) to modal()
OpOtherEvent ==
  /\ op.pc = "modal"
  /\ op' = modal(op, "MOUSEMOVE", <<FALSE, FALSE, FALSE>>, FALSE, FALSE)
  /\ UNCHANGED exceptOp

NextOps == OpBegin \/ OpTimer \/ OpEsc \/ OpOtherEvent \/ OpObjectRemoved

SpecOps == InitOps /\ [][NextOps]_vars

\* C16: a batch operator invoked while the host is not in Object mode
\* returns CANCELLED with one ERROR report and has no effect: no object's
\* per-object step is called, no mesh has any of the pipeline applied, the
\* selection, the active object, the mode and the scene are as they were
\* when it was invoked, and no timer or progress indicator is left.
C16_RejectedOutsideObjectMode ==
  (op.pc = "done" /\ op.at_invoke.mode # "OBJECT") =>
    /\ op.ret = "CANCELLED"
    /\ Len(op.reports) = 1 /\ op.reports[1].level = "ERROR"
    /\ \A x \in Objects : op.applied[x] = "not_run" /\ op.calls[x] = "none"
    /\ op.selected = op.at_invoke.selected
    /\ op.active = op.at_invoke.active
    /\ op.mode = op.at_invoke.mode
    /\ op.scene = Objects
    /\ op.current_index = 0 /\ op.objects_to_process = <<>>
    /\ ~op.timer /\ ~op.progress

\* an operator rejected in Edit mode with two mesh objects selected, which
\* in Object mode it would have processed
C16_Witness ==
  /\ op.pc = "done" /\ op.at_invoke.mode = "EDIT"
  /\ op.ret = "CANCELLED"
  /\ Cardinality({x \in op.selected : op.types[x] = "MESH"}) >= 2
  /\ op.raising = {} /\ op.stubborn = {}
  /\ op.active \in op.selected

\* the batch was ended by an ESC event
EndedByEsc ==
  /\ op.pc = "done" /\ op.ret = "CANCELLED"
  /\ \E k \in DOMAIN op.reports : op.reports[k].level = "WARNING"

\* the per-object step has nothing to run on the object: it is no mesh, it
\* left the scene, or the host refuses to edit it and the step catches that
SkippedWhole(x) ==
  \/ op.types[x] # "MESH"
  \/ ~in_scene(op, x)
  \/ x \in op.raising

\* C17: when a modal batch ends by ESC, the per-object step was called and
\* has returned for every object at a position below current_index, and
\* that object either had the whole pipeline applied or was skipped whole
\* (no mesh, gone from the scene, editing refused) with its mesh as it was;
\* no object at a later position was touched, and no mesh has only part of
\* a pipeline applied.
C17_CancelBetweenObjects ==
  EndedByEsc =>
    /\ op.current_index <= Len(op.objects_to_process)
    /\ \A i \in DOMAIN op.objects_to_process :
         LET x == op.objects_to_process[i]
         IN  IF i <= op.current_index
             THEN /\ op.calls[x] = "returned"
                  /\ \/ op.applied[x] = "complete"
                     \/ op.applied[x] = "not_run" /\ SkippedWhole(x)
             ELSE op.calls[x] = "none" /\ op.applied[x] = "not_run"
    /\ \A x \in Objects : op.applied[x] # "partial"

\* a batch cancelled after the first of its three objects was processed
C17_Witness ==
  /\ EndedByEsc
  /\ op.current_index = 1 /\ Len(op.objects_to_process) = 3
  /\ op.applied[op.objects_to_process[1]] = "complete"

\* C17 as stated: every object below current_index has had the whole
\* pipeline applied.
C17_Original ==
  EndedByEsc =>
    /\ \A i \in DOMAIN op.objects_to_process :
         LET x == op.objects_to_process[i]
         IN  IF i <= op.current_index
             THEN op.applied[x] = "complete"
             ELSE op.applied[x] = "not_run"
    /\ \A x \in Objects : op.applied[x] # "partial"

\* C18 (as stated): the report of a batch cancelled after objects were
\* processed states the work completed on them (a count or their outcomes),
\* not only that the batch was cancelled.
C18_CancelReportStatesWork ==
  (EndedByEsc /\ op.current_index > 0) =>
    \E k \in DOMAIN op.reports : op.reports[k].says # None

\* C19 (as stated): a batch in which a host call made for one object
\* raised still reaches its finish step: when it has ended,
\* the timer and the progress indicator are gone, a result was reported,
\* the handler returned FINISHED or CANCELLED, and unless it was cancelled
\* the per-object step has returned for every other mesh object of the
\* batch that is still in the scene.
C19_FailureDoesNotAbort ==
  (op.pc = "done" /\ \E x \in Objects : op.calls[x] = "raised") =>
    /\ op.ret \in {"FINISHED", "CANCELLED"}
    /\ ~op.timer /\ ~op.progress
    /\ op.reports # <<>>
    /\ op.ret = "FINISHED" =>
         \A x \in op.at_invoke.selected :
           (op.types[x] = "MESH" /\ in_scene(op, x) /\ op.calls[x] # "raised")
              => op.calls[x] = "returned"
(***************************************************************************)
(* The filter-intersections operator over objects that carry cached counts *)
(* (filter_intersections.py lines 57-207, main.py lines 228-317).          *)
(* flt.objs are the objects of the scene as the cache section has them;    *)
(* the face indices a query returns are a function of the mesh content;    *)
(* flt.raising are the objects the host refuses to put into Edit mode.     *)
(***************************************************************************)
\* the objects of the scene the filter runs on
NFilterObjects == 2

FilterObjects == 1..NFilterObjects

\* bmesh_get_intersecting_face_indices(bm) for the mesh content c
QueryFaces(c) == 1..c

\* filter_intersections.py lines 198-207
flt_determine_new_active(f) ==
  IF f.initial_active # 0
     /\ \E k \in DOMAIN f.objects_with_intersections :
          f.objects_with_intersections[k] = f.initial_active
  THEN f.initial_active
  ELSE IF f.objects_with_intersections # <<>>
  THEN f.objects_with_intersections[1]
  ELSE 0

\* filter_intersections.py lines 74-93 with context.mode = "OBJECT" (the
\* other modes are rejected at lines 77-79, see filter_begin)
flt_begin(f) ==
  IF SortedSeq(f.selected) = <<>>
  THEN [f EXCEPT !.pc = "done", !.ret = "FINISHED",
                 !.reports = Append(@, Report("INFO", "no_objects_selected", None))]
  ELSE [f EXCEPT !.initial_active = f.active,
                 !.initial_selection = SortedSeq(f.selected),
                 !.objects_to_process = SortedSeq(f.selected),
                 !.selected = {},
                 !.timer = TRUE, !.pc = "modal", !.ret = "RUNNING_MODAL"]

\* filter_intersections.py lines 105-143
flt_process_object(f, x) ==
  IF f.objs[x].type # "MESH" THEN f
  ELSE LET g == get_validated_object_stat(f.objs[x], "self_intersection", f.now, f.decimal)
           cached_intersections == g[1]
           f1 == [f EXCEPT !.mesh_candidates = @ + 1, !.objs[x] = g[2]]
           found_faces == QueryFaces(g[2].content)
           counts == [s \in Slots |-> IF s = "self_intersection"
                                      THEN <<"count", Cardinality(found_faces)>>
                                      ELSE None]
       IN  IF cached_intersections # None
           THEN IF cached_intersections[2] > 0
                THEN [f1 EXCEPT !.objects_with_intersections = Append(@, x)]
                ELSE f1
           ELSE IF x \in f.raising
           THEN [f1 EXCEPT !.active = x, !.selected = @ \ {x}]
           ELSE [f1 EXCEPT !.active = x, !.selected = @ \ {x},
                           !.objs[x] = set_object_analysis_stats(g[2], counts, f.now, f.decimal),
                           !.objects_with_intersections =
                              IF found_faces # {} THEN Append(@, x) ELSE @]

\* filter_intersections.py lines 145-177 with lines 179-196
flt_finish_modal(f, cancelled) ==
  IF cancelled
  THEN [f EXCEPT !.timer = FALSE, !.pc = "done", !.ret = "CANCELLED",
                 !.selected = {f.initial_selection[k] : k \in DOMAIN f.initial_selection},
                 !.active = f.initial_active,
                 !.reports = Append(@, Report("WARNING", "cancelled_before_completion", None))]
  ELSE [f EXCEPT !.timer = FALSE, !.pc = "done", !.ret = "FINISHED",
                 !.selected = @ \cup {f.objects_with_intersections[k] :
                                        k \in DOMAIN f.objects_with_intersections},
                 !.active = flt_determine_new_active(f),
                 !.reports = Append(@,
                    IF f.objects_with_intersections = <<>>
                    THEN IF f.mesh_candidates = 0
                         THEN Report("WARNING", "no_mesh_objects", None)
                         ELSE Report("INFO", "none_detected", None)
                    ELSE Report("INFO", "n_of_m_with_intersections",
                                <<"count", Len(f.objects_with_intersections)>>))]

\* filter_intersections.py lines 57-72
flt_modal(f, event) ==
  IF event = "ESC" THEN flt_finish_modal(f, TRUE)
  ELSE IF event # "TIMER" THEN f
  ELSE IF f.current_index >= Len(f.objects_to_process) THEN flt_finish_modal(f, FALSE)
  ELSE [flt_process_object(f, f.objects_to_process[f.current_index + 1])
          EXCEPT !.current_index = @ + 1]

\* a scene in Object mode whose objects carry no cached value yet
InitFilter ==
  /\ RepairIdle
  /\ isl = NoIslands /\ nm = NoNM /\ batch = NoBatch
  /\ ck = NoMeshPair /\ cache = NoCache /\ det = NoQuery /\ grp = NoGrouping
  /\ op = NoOp /\ fnm = NoFilterNM /\ sf = NoShrink
  /\ an = NoAnalysis /\ spl = NoSplit /\ bb = NoBoxes
  /\ \E ty \in [FilterObjects -> {"MESH", "OTHER"}],
        c \in [FilterObjects -> Contents], D \in SUBSET Contents,
        sel \in SUBSET FilterObjects, act \in {0} \cup FilterObjects :
     \E bad \in SUBSET {x \in FilterObjects : ty[x] = "MESH"} :
       /\ \A x \in FilterObjects : ty[x] = "OTHER" => c[x] = 0
       /\ flt = [NoFilter EXCEPT
                   !.pc = "scene",
                   !.objs = [x \in FilterObjects |->
                               [type |-> ty[x], content |-> c[x], ck_value |-> None,
                                ck_time |-> None, count |-> NoProps, checksum |-> NoProps]],
                   !.decimal = D, !.raising = bad, !.selected = sel, !.active = act]

\* before the filter runs: an analysis stores the counts of an object it
\* could edit (analyze.py lines 180-188)
FilterAnalyzed ==
  /\ flt.pc = "scene"
  /\ \E x \in FilterObjects \ flt.raising :
       /\ flt.objs[x].type = "MESH"
       /\ flt' = [flt EXCEPT !.objs[x] =
            set_object_analysis_stats(@,
              [s \in Slots |-> IF s = "self_intersection"
                               THEN <<"count", Cardinality(QueryFaces(flt.objs[x].content))>>
                               ELSE <<"count", 0>>],
              flt.now, flt.decimal)]
  /\ UNCHANGED exceptFlt

\* before the filter runs: the mesh of an object is edited
FilterEditMesh ==
  /\ flt.pc = "scene"
  /\ \E x \in FilterObjects \ flt.raising :
       /\ flt.objs[x].type = "MESH"
       /\ \E c \in Contents \ {flt.objs[x].content} :
            flt' = [flt EXCEPT !.objs[x] = [@ EXCEPT !.content = c]]
  /\ UNCHANGED exceptFlt

\* before the filter runs: 150 seconds pass
FilterTick ==
  /\ flt.pc = "scene"
  /\ flt.now < MaxTime
  /\ flt' = [flt EXCEPT !.now = @ + 1]
  /\ UNCHANGED exceptFlt

\* the host calls invoke / execute in Object mode
FilterBegin ==
  /\ flt.pc = "scene"
  /\ flt' = flt_begin([flt EXCEPT !.at_invoke = [selected |-> flt.selected,
                                                 active |-> flt.active]])
  /\ UNCHANGED exceptFlt

\* the host delivers a TIMER event
FilterTimer ==
  /\ flt.pc = "modal"
  /\ flt' = flt_modal(flt, "TIMER")
  /\ UNCHANGED exceptFlt

\* the host delivers an ESC event
FilterEsc ==
  /\ flt.pc = "modal"
  /\ flt' = flt_modal(flt, "ESC")
  /\ UNCHANGED exceptFlt

NextFilter ==
  FilterAnalyzed \/ FilterEditMesh \/ FilterTick \/ FilterBegin \/ FilterTimer \/ FilterEsc

SpecFilter == InitFilter /\ [][NextFilter]_vars

\* the initially selected mesh objects on which a query finds a face
WithIntersections ==
  {x \in flt.at_invoke.selected :
     flt.objs[x].type = "MESH" /\ QueryFaces(flt.objs[x].content) # {}}

\* C20 (as stated): after the filter finished without cancellation the
\* selected objects are exactly the initially selected mesh objects with a
\* self-intersecting face, and the active object is the initial active
\* object if it is one of them, else the first of them, else none.
C20_SelectsTheIntersecting ==
  (flt.pc = "done" /\ flt.ret = "FINISHED") =>
    /\ flt.selected = WithIntersections
    /\ flt.active = IF flt.at_invoke.active \in WithIntersections
                    THEN flt.at_invoke.active
                    ELSE IF WithIntersections # {}
                    THEN CHOOSE x \in WithIntersections : \A y \in WithIntersections : x <= y
                    ELSE 0
(***************************************************************************)
(* The filter-non-manifold operator, in the modal version of t4p_clean     *)
(* (operations/filter_non_manifold.py lines 36-211) and in the one-call    *)
(* version of t4p_smooth_intersection (operations/filter_non_manifold.py   *)
(* lines 12-94).  The mesh content of an object stands for its defects:    *)
(* 0 is a closed manifold mesh, 1 a mesh whose only defect is one vertex   *)
(* where two fans of faces meet (each of its edges has two faces), 2 a     *)
(* mesh with an open boundary edge.                                        *)
(***************************************************************************)
\* the contents 0..MaxDefect of a mesh the filter looks at
MaxDefect == 2

DefectContents == 0..MaxDefect

\* main.py lines 156-160, count_non_manifold_verts(bm) for the content c:
\* the vertices the host selects as non-manifold
non_manifold_verts_of(c) == c

\* t4p_smooth_intersection/operations/filter_non_manifold.py line 52:
\* any(not edge.is_manifold for edge in bm.edges)
has_non_manifold_edge(c) == c >= 2

\* t4p_clean/operations/filter_non_manifold.py lines 196-211
fnm_assign_new_active(f, remaining_selected) ==
  IF f.initial_active # 0
     /\ \E k \in DOMAIN remaining_selected : remaining_selected[k] = f.initial_active
  THEN f.initial_active
  ELSE IF remaining_selected # <<>> THEN remaining_selected[1]
  ELSE 0

\* t4p_clean/operations/filter_non_manifold.py lines 75-94 with
\* context.mode = "OBJECT"
fnm_begin(f) ==
  IF SortedSeq(f.selected) = <<>>
  THEN [f EXCEPT !.pc = "done", !.ret = "FINISHED",
                 !.reports = Append(@, Report("INFO", "no_objects_selected", None))]
  ELSE [f EXCEPT !.initial_active = f.active,
                 !.initial_selection = SortedSeq(f.selected),
                 !.objects_to_process = SortedSeq(f.selected),
                 !.selected = {},
                 !.timer = TRUE, !.pc = "modal", !.ret = "RUNNING_MODAL"]

\* t4p_clean/operations/filter_non_manifold.py lines 106-139
fnm_process_object(f, x) ==
  IF f.objs[x].type # "MESH" THEN f
  ELSE LET g == get_validated_object_stat(f.objs[x], "non_manifold", f.now, f.decimal)
           cached_count == g[1]
           f1 == [f EXCEPT !.mesh_candidates = @ + 1, !.objs[x] = g[2]]
           non_manifold_count == non_manifold_verts_of(g[2].content)
           counts == [s \in Slots |-> IF s = "non_manifold"
                                      THEN <<"count", non_manifold_count>>
                                      ELSE None]
       IN  IF cached_count # None
           THEN IF cached_count[2] > 0
                THEN [f1 EXCEPT !.non_manifold_objects = Append(@, x)]
                ELSE f1
           ELSE IF x \in f.raising
           THEN [f1 EXCEPT !.active = x, !.selected = @ \ {x}]
           ELSE [f1 EXCEPT !.active = x, !.selected = @ \ {x},
                           !.objs[x] = set_object_analysis_stats(g[2], counts, f.now, f.decimal),
                           !.non_manifold_objects =
                              IF non_manifold_count > 0 THEN Append(@, x) ELSE @]

\* t4p_clean/operations/filter_non_manifold.py lines 141-175 with lines
\* 177-194: the listed objects are selected again at lines 154-155
fnm_finish_modal(f, cancelled) ==
  IF cancelled
  THEN [f EXCEPT !.timer = FALSE, !.pc = "done", !.ret = "CANCELLED",
                 !.selected = {f.initial_selection[k] : k \in DOMAIN f.initial_selection},
                 !.active = f.initial_active,
                 !.reports = Append(@, Report("WARNING", "cancelled_before_completion", None))]
  ELSE [f EXCEPT !.timer = FALSE, !.pc = "done", !.ret = "FINISHED",
                 !.selected = @ \cup {f.non_manifold_objects[k] :
                                        k \in DOMAIN f.non_manifold_objects},
                 !.active = fnm_assign_new_active(f, f.non_manifold_objects),
                 !.reports = Append(@,
                    IF f.mesh_candidates = 0
                    THEN Report("INFO", "no_mesh_objects", None)
                    ELSE IF f.non_manifold_objects = <<>>
                    THEN Report("INFO", "all_manifold", None)
                    ELSE IF Len(f.non_manifold_objects) = f.mesh_candidates
                    THEN Report("WARNING", "all_not_manifold", None)
                    ELSE Report("WARNING", "deselected_n_remain",
                                <<"count", Len(f.non_manifold_objects)>>))]

\* t4p_clean/operations/filter_non_manifold.py lines 58-73
fnm_modal(f, event) ==
  IF event = "ESC" THEN fnm_finish_modal(f, TRUE)
  ELSE IF event # "TIMER" THEN f
  ELSE IF f.current_index >= Len(f.objects_to_process) THEN fnm_finish_modal(f, FALSE)
  ELSE [fnm_process_object(f, f.objects_to_process[f.current_index + 1])
          EXCEPT !.current_index = @ + 1]

\* t4p_smooth_intersection/operations/filter_non_manifold.py lines 35-63:
\* the loop over the first n selected objects; an object the host refuses
\* to edit counts as manifold (lines 53-54)
RECURSIVE fnm_execute_loop(_, _, _)
fnm_execute_loop(f, todo, n) ==
  IF n = 0 THEN f
  ELSE LET g == fnm_execute_loop(f, todo, n - 1)
           x == todo[n]
       IN  IF g.objs[x].type # "MESH" THEN g
           ELSE [g EXCEPT !.mesh_candidates = @ + 1,
                          !.active = x, !.selected = @ \ {x},
                          !.non_manifold_objects =
                             IF x \notin g.raising /\ has_non_manifold_edge(g.objs[x].content)
                             THEN Append(@, x) ELSE @]

\* t4p_smooth_intersection/operations/filter_non_manifold.py lines 20-94
\* with context.mode = "OBJECT"
fnm_execute(f) ==
  IF SortedSeq(f.selected) = <<>>
  THEN [f EXCEPT !.pc = "done", !.ret = "FINISHED",
                 !.reports = Append(@, Report("INFO", "no_objects_selected", None))]
  ELSE LET initially_selected == SortedSeq(f.selected)
           g == fnm_execute_loop([f EXCEPT !.initial_active = f.active,
                                           !.initial_selection = initially_selected],
                                 initially_selected, Len(initially_selected))
           now_selected == g.selected \cup {g.non_manifold_objects[k] :
                                              k \in DOMAIN g.non_manifold_objects}
           remaining_selected == SortedSeq(now_selected)
       IN  [g EXCEPT !.pc = "done", !.ret = "FINISHED",
                     !.selected = now_selected,
                     !.active = fnm_assign_new_active(g, remaining_selected),
                     !.reports = Append(@,
                        IF g.mesh_candidates = 0
                        THEN Report("INFO", "no_mesh_objects", None)
                        ELSE IF g.non_manifold_objects = <<>>
                        THEN Report("INFO", "all_manifold", None)
                        ELSE Report("INFO", "deselected_non_manifold_meshes", None))]

\* a scene in Object mode whose objects carry no cached value yet
InitFilterNM ==
  /\ RepairIdle
  /\ isl = NoIslands /\ nm = NoNM /\ batch = NoBatch
  /\ ck = NoMeshPair /\ cache = NoCache /\ det = NoQuery /\ grp = NoGrouping
  /\ op = NoOp /\ flt = NoFilter /\ sf = NoShrink
  /\ an = NoAnalysis /\ spl = NoSplit /\ bb = NoBoxes
  /\ \E ver \in {"clean", "legacy"},
        ty \in [FilterObjects -> {"MESH", "OTHER"}],
        c \in [FilterObjects -> DefectContents], D \in {{}, DefectContents},
        sel \in SUBSET FilterObjects, act \in {0} \cup FilterObjects :
     \E bad \in SUBSET {x \in FilterObjects : ty[x] = "MESH"} :
       /\ \A x \in FilterObjects : ty[x] = "OTHER" => c[x] = 0
       /\ ver = "legacy" => D = {}
       /\ fnm = [NoFilterNM EXCEPT
                   !.pc = "scene", !.version = ver,
                   !.objs = [x \in FilterObjects |->
                               [type |-> ty[x], content |-> c[x], ck_value |-> None,
                                ck_time |-> None, count |-> NoProps, checksum |-> NoProps]],
                   !.decimal = D, !.raising = bad, !.selected = sel, !.active = act]

\* before the filter runs: an analysis stores the counts of an object it
\* could edit (analyze.py lines 180-188)
FilterNMAnalyzed ==
  /\ fnm.pc = "scene" /\ fnm.version = "clean"
  /\ \E x \in FilterObjects \ fnm.raising :
       /\ fnm.objs[x].type = "MESH"
       /\ fnm' = [fnm EXCEPT !.objs[x] =
            set_object_analysis_stats(@,
              [s \in Slots |-> IF s = "non_manifold"
                               THEN <<"count", non_manifold_verts_of(fnm.objs[x].content)>>
                               ELSE <<"count", 0>>],
              fnm.now, fnm.decimal)]
  /\ UNCHANGED exceptFnm

\* before the filter runs: the mesh of an object is edited
FilterNMEditMesh ==
  /\ fnm.pc = "scene" /\ fnm.version = "clean"
  /\ \E x \in FilterObjects \ fnm.raising :
       /\ fnm.objs[x].type = "MESH"
       /\ \E c \in DefectContents \ {fnm.objs[x].content} :
            fnm' = [fnm EXCEPT !.objs[x] = [@ EXCEPT !.content = c]]
  /\ UNCHANGED exceptFnm

\* before the filter runs: 150 seconds pass
FilterNMTick ==
  /\ fnm.pc = "scene" /\ fnm.version = "clean"
  /\ fnm.now <= CacheDuration
  /\ fnm' = [fnm EXCEPT !.now = @ + 1]
  /\ UNCHANGED exceptFnm

\* the host calls invoke / execute in Object mode
FilterNMBegin ==
  /\ fnm.pc = "scene"
  /\ LET f == [fnm EXCEPT !.at_invoke = [selected |-> fnm.selected, active |-> fnm.active]]
     IN  fnm' = IF fnm.version = "clean" THEN fnm_begin(f) ELSE fnm_execute(f)
  /\ UNCHANGED exceptFnm

\* the host delivers a TIMER event
FilterNMTimer ==
  /\ fnm.pc = "modal"
  /\ fnm' = fnm_modal(fnm, "TIMER")
  /\ UNCHANGED exceptFnm

\* the host delivers an ESC event
FilterNMEsc ==
  /\ fnm.pc = "modal"
  /\ fnm' = fnm_modal(fnm, "ESC")
  /\ UNCHANGED exceptFnm

NextFilterNM ==
  \/ FilterNMAnalyzed \/ FilterNMEditMesh \/ FilterNMTick
  \/ FilterNMBegin \/ FilterNMTimer \/ FilterNMEsc

SpecFilterNM == InitFilterNM /\ [][NextFilterNM]_vars

\* the initially selected mesh objects with a non-manifold vertex
WithNonManifold ==
  {x \in fnm.at_invoke.selected :
     fnm.objs[x].type = "MESH" /\ non_manifold_verts_of(fnm.objs[x].content) > 0}

\* C21 (as stated): after the filter-non-manifold operator finished without
\* cancellation, every initially selected mesh object that contains
\* non-manifold geometry is deselected.
C21_NonManifoldDeselected ==
  (fnm.pc = "done" /\ fnm.ret = "FINISHED") =>
    \A x \in WithNonManifold : x \notin fnm.selected

\* what the operator does instead, where nothing is cached and the host
\* edits every object: the objects left selected are the listed ones
C21_NonManifoldKeptSelected ==
  (fnm.pc = "done" /\ fnm.ret = "FINISHED" /\ fnm.version = "clean"
     /\ fnm.raising = {} /\ fnm.decimal = {} /\ fnm.at_invoke.selected # {}) =>
    fnm.selected = WithNonManifold
(***************************************************************************)
(* The rounds of the split pass (clean_intersections.py lines 452-469,     *)
(* smooth.py lines 299-319 and 535-541).  counters.reported is what the    *)
(* last call of _split_faces_once returned.                                *)
(***************************************************************************)
\* the next step of the run is a call of _split_faces_once
CleanRoundStarts == engine = "clean" /\ pc = "split_loop" /\ mesh.isect # {}

LegacyRoundStarts == engine = "legacy" /\ pc = "L_split"

SmoothLoopStarts == engine = "clean" /\ pc = "smooth_loop" /\ counters.smooth = 0

\* C23 (as stated): the mesh is re-triangulated after every split round,
\* whether or not the round reported a split, so every face is a triangle
\* when the split pass ends and the smooth loop starts.
C23_TrianglesAtSmoothLoop == SmoothLoopStarts => mesh.tri

\* what the code ensures: the mesh is triangulated after the rounds that
\* reported a split (line 461)
C23_TrianglesAfterReportedSplit ==
  (SmoothLoopStarts /\ counters.reported) => mesh.tri

NSFVerts == 7
\* coordinate values 0..MaxSFCo of a vertex
MaxSFCo == 1

SFVerts == 1..NSFVerts
SFCoords == 0..MaxSFCo

\* the faces of the mesh: two triangles with a common edge and a third apart
SFFaceVerts == <<{1, 2, 3}, {2, 3, 4}, {5, 6, 7}>>

SFFaces == DOMAIN SFFaceVerts

NoAttempt == [outcome |-> "none", k |-> 0, group |-> {}, before |-> <<>>, remaining |-> {}]

\* the vertices of a set of faces (smooth.py lines 382-388, relevant_vertices)
relevant_vertices(F) == UNION {SFFaceVerts[f] : f \in F}

\* bpy.ops.mesh.select_more(): the faces that touch a selected face
grow_selection(S) ==
  {f \in SFFaces : \E g \in S : SFFaceVerts[f] \cap SFFaceVerts[g] # {}}

\* the faces reached from face f over shared edges inside S
RECURSIVE sf_island(_, _)
sf_island(S, I) ==
  LET J == I \cup {g \in S : \E f \in I : Cardinality(SFFaceVerts[f] \cap SFFaceVerts[g]) >= 2}
  IN  IF J = I THEN I ELSE sf_island(S, J)

\* _get_selected_visible_face_islands (smooth.py lines 322-358)
sf_islands(select, hide) ==
  {sf_island(select \ hide, {f}) : f \in select \ hide}

\* _group_intersecting_bounding_boxes (smooth.py lines 125-153): islands
\* whose boxes overlap are merged; which boxes overlap is the geometry's
\* choice
sf_groupings(I) ==
  { OrderByMin({ UNION {i \in I : f[i] = j} : j \in 1..Cardinality(I) } \ {{}}) :
      f \in [I -> 1..Cardinality(I)] }

\* bpy.ops.mesh.reveal()
reveal_kept_hidden(s) == s
reveal(s) == [s EXCEPT !.hide = {}]

\* smooth.py lines 395-399, _restore_saved_coords: the saved coordinates are
\* assigned back to the vertices they were copied from
keep_moved_coords(co, saved) == co
restore_saved_coords(co, saved) ==
  [v \in DOMAIN co |-> IF v \in DOMAIN saved THEN saved[v] ELSE co[v]]

\* smooth.py line 417: not (remaining & group_face_indices)
accepted_if_none_remain(remaining, group_face_indices) == remaining = {}
displacement_accepted(remaining, group_face_indices) ==
  remaining \cap group_face_indices = {}

\* the attempts one call can make: smooth.py lines 423-432 and
\* clean_intersections.py lines 367-376 loop over two scales and two signs,
\* __init__.py lines 505-508 tries one scale with two signs
LastAttempt(version) == IF version = "init" THEN 2 ELSE AttemptsPerGroup

\* the displacement of attempt k in percent of max_length
AttemptPercent(k) == IF k = 1 THEN 10 ELSE IF k = 2 THEN 0 - 10 ELSE IF k = 3 THEN 20 ELSE 0 - 20

\* the attempt that follows attempt k, 0 when the call returns (smooth.py
\* lines 428-434)
NextAttemptAnyway(version, k, accepted) == IF k < LastAttempt(version) THEN k + 1 ELSE 0
NextAttempt(version, k, accepted) ==
  IF accepted THEN 0 ELSE IF k < LastAttempt(version) THEN k + 1 ELSE 0

\* the coordinates the host can leave after moving the vertices of V
SFMoves(co, V) ==
  {c \in [SFVerts -> SFCoords] : \A v \in SFVerts \ V : c[v] = co[v]}

\* the end of _try_shrink_fatten for group s.gi with the given return value
sf_group_done(s, solved) ==
  [s EXCEPT !.gi = @ + 1, !.k = 0, !.pc = "group",
            !.solved_any = @ \/ solved, !.accepted = solved]

\* smooth.py lines 437-476, __init__.py lines 511-550, clean_intersections.py
\* lines 381-400: the states the function can be in when its group loop starts
\* or when it has returned before
sf_begin(s) ==
  IF s.version = "clean"
  THEN IF ~SelectFacesCallBinds
       THEN \* clean_intersections.py line 387: TypeError
            {[s EXCEPT !.pc = "raised", !.raised = "TypeError"]}
       ELSE LET s1 == [s EXCEPT !.select = grow_selection(s.isect),
                                !.hide = @ \cup (SFFaces \ grow_selection(s.isect)),
                                !.was_hidden = TRUE]
                islands == sf_islands(s1.select, s1.hide)
            IN  IF islands = {}
                THEN {[s1 EXCEPT !.pc = "done", !.ret = "FALSE"]}
                ELSE {[s1 EXCEPT !.groups = g, !.gi = 1, !.pc = "group"] :
                        g \in sf_groupings(islands)}
  ELSE LET s0 == [reveal(s) EXCEPT !.select = s.isect]
       IN  IF s.isect = {}
           THEN \* smooth.py lines 450-451: face_count == 0
                {[s0 EXCEPT !.pc = "done", !.ret = "FALSE"]}
           ELSE LET s1 == [s0 EXCEPT !.select = grow_selection(s.isect),
                                     !.hide = SFFaces \ grow_selection(s.isect),
                                     !.was_hidden = TRUE]
                    islands == sf_islands(s1.select, s1.hide)
                IN  IF islands = {}
                    THEN {[reveal(s1) EXCEPT !.pc = "done", !.ret = "FALSE"]}
                    ELSE {[s1 EXCEPT !.groups = g, !.gi = 1, !.pc = "group"] :
                            g \in sf_groupings(islands)}

\* smooth.py lines 493-504 (clean_intersections.py lines 415-418): reveal,
\* deselect, return solved_any
sf_finish(s) ==
  [reveal(s) EXCEPT !.select = {}, !.pc = "done",
                    !.ret = IF s.solved_any THEN "TRUE" ELSE "FALSE"]

\* smooth.py lines 477-488 and 366-390: the next group is selected and
\* _try_shrink_fatten begins with max_length ml
sf_group_start(s, ml) ==
  IF s.gi > Len(s.groups)
  THEN IF s.entry = "try"
       THEN [s EXCEPT !.pc = "done", !.ret = IF s.solved_any THEN "TRUE" ELSE "FALSE"]
       ELSE sf_finish(s)
  ELSE LET s1 == [s EXCEPT !.select = s.groups[s.gi], !.max_length = ml,
                           !.tried = <<>>, !.accepted = FALSE, !.at_group = s.co]
       IN  IF ml <= 0 THEN sf_group_done(s1, FALSE)
           ELSE IF s.version = "init" /\ DistanceNegligible(AttemptDistance(ml, 1))
           THEN \* __init__.py lines 468-470
                sf_group_done(s1, FALSE)
           ELSE [s1 EXCEPT !.k = 1, !.pc = "attempt"]

\* what follows attempt s.k when it returned `ok`
sf_after_attempt(s, ok) ==
  LET n == NextAttempt(s.version, s.k, ok)
  IN  IF n = 0 THEN sf_group_done(s, ok)
      ELSE [s EXCEPT !.k = n, !.accepted = ok]

\* one call of _attempt (smooth.py lines 392-421, clean_intersections.py
\* lines 345-365, __init__.py lines 481-503) with what the loop does next:
\* the states it can end in
sf_attempt(s) ==
  LET group_face_indices == s.groups[s.gi]
      saved_coords == [v \in relevant_vertices(group_face_indices) |-> s.co[v]]
      selected_verts == relevant_vertices(s.select \ s.hide)
      t == [s EXCEPT !.tried = Append(@, AttemptPercent(s.k))]
      att(outcome, remaining) ==
        [outcome |-> outcome, k |-> s.k, group |-> group_face_indices,
         before |-> s.co, remaining |-> remaining]
      shrink_fatten_raises ==
        IF s.version = "clean"
        THEN {[t EXCEPT !.pc = "raised", !.raised = "RuntimeError",
                        !.last = att("raised", {})]}
        ELSE {sf_after_attempt(
                [t EXCEPT !.co = restore_saved_coords(s.co, saved_coords),
                          !.last = att("shrink_fatten_raised", {})], FALSE)}
      vertices_smooth_raises ==
        IF s.version = "init" THEN {}
        ELSE IF s.version = "clean"
        THEN {[t EXCEPT !.co = moved, !.pc = "raised", !.raised = "RuntimeError",
                        !.last = att("raised", {})] :
                moved \in SFMoves(s.co, selected_verts)}
        ELSE {sf_after_attempt(
                [t EXCEPT !.co = restore_saved_coords(moved, saved_coords),
                          !.last = att("vertices_smooth_raised", {})], FALSE) :
                moved \in SFMoves(s.co, selected_verts)}
      returns ==
        UNION {
          { IF displacement_accepted(remaining, group_face_indices)
            THEN sf_after_attempt(
                   [t EXCEPT !.co = moved, !.isect = remaining,
                             !.last = att("accepted", remaining)], TRUE)
            ELSE sf_after_attempt(
                   [t EXCEPT !.co = restore_saved_coords(moved, saved_coords),
                             !.last = att("rejected", remaining)], FALSE) :
            remaining \in IF moved = s.co THEN {s.isect} ELSE SUBSET SFFaces } :
          moved \in SFMoves(s.co, selected_verts) }
  IN  IF DistanceNegligible(AttemptDistance(s.max_length, s.k))
      THEN \* smooth.py line 426: continue, both signs of this scale are skipped
           IF s.k <= 2 THEN {[s EXCEPT !.k = 3]} ELSE {sf_group_done(s, FALSE)}
      ELSE shrink_fatten_raises \cup vertices_smooth_raises \cup returns

\* a mesh in Edit mode with intersecting and hidden faces, before the
\* fallback or before a call of _try_shrink_fatten on a selected group
InitShrink ==
  /\ RepairIdle
  /\ isl = NoIslands /\ nm = NoNM /\ batch = NoBatch
  /\ ck = NoMeshPair /\ cache = NoCache /\ det = NoQuery /\ grp = NoGrouping
  /\ op = NoOp /\ flt = NoFilter /\ fnm = NoFilterNM
  /\ an = NoAnalysis /\ spl = NoSplit /\ bb = NoBoxes
  /\ \E ver \in {"clean", "legacy", "init"}, x \in SUBSET SFFaces, h \in SUBSET SFFaces :
       \/ sf = [NoShrink EXCEPT !.pc = "start", !.version = ver, !.entry = "fallback",
                                !.co = [v \in SFVerts |-> 0], !.isect = x, !.hide = h,
                                !.last = NoAttempt]
       \/ \E G \in SUBSET SFFaces \ {{}} :
            sf = [NoShrink EXCEPT !.pc = "group", !.version = ver, !.entry = "try",
                                  !.co = [v \in SFVerts |-> 0], !.isect = x,
                                  !.select = G, !.hide = SFFaces \ G,
                                  !.groups = <<G>>, !.gi = 1, !.last = NoAttempt]

ShrinkBegin ==
  /\ sf.pc = "start"
  /\ sf' \in sf_begin(sf)
  /\ UNCHANGED exceptSf

ShrinkGroupStart ==
  /\ sf.pc = "group"
  /\ \E ml \in GroupExtents : sf' = sf_group_start(sf, ml)
  /\ UNCHANGED exceptSf

ShrinkAttempt ==
  /\ sf.pc = "attempt"
  /\ sf' \in sf_attempt(sf)
  /\ UNCHANGED exceptSf

NextShrink == ShrinkBegin \/ ShrinkGroupStart \/ ShrinkAttempt

SpecShrink == InitShrink /\ [][NextShrink]_vars

\* the last attempt returned False
AttemptRejected ==
  sf.last.outcome \in {"rejected", "shrink_fatten_raised", "vertices_smooth_raised"}

Rank(p) == CHOOSE k \in 1..AttemptsPerGroup : AttemptPercent(k) = p

\* C25: the attempts made on one group are at most four, each one of +10%,
\* -10%, +20%, -20% of the extent and made in that order, and no attempt on
\* the group follows an accepted one.
C25_AttemptsInOrder ==
  /\ [](/\ Len(sf.tried) <= AttemptsPerGroup
        /\ \A i \in DOMAIN sf.tried :
             /\ sf.tried[i] \in {AttemptPercent(k) : k \in 1..AttemptsPerGroup}
             /\ \A j \in DOMAIN sf.tried : i < j => Rank(sf.tried[i]) < Rank(sf.tried[j]))
  /\ [][ (sf.accepted /\ sf'.tried # sf.tried) => sf'.tried = <<>> ]_vars

\* the third attempt on a group was accepted and the call has returned
C25_Witness ==
  /\ sf.accepted /\ sf.tried = <<10, 0 - 10, 20>> /\ sf.pc \in {"group", "done"}

FixRoundStarts == nm.pc = "make_manifold_loop"

\* C29 (as amended): the first round starts only when the mesh has a
\* non-manifold vertex; a further round starts exactly when the round before
\* it changed the number of faces, whatever the count of non-manifold
\* vertices is by then; a round that starts on a mesh without non-manifold
\* vertices changes nothing and is the last one.
C29_RoundStartRule ==
  /\ []((FixRoundStarts /\ nm.rounds = 0) => count_non_manifold_verts(nm.bm) > 0)
  /\ [][ /\ (FixRoundStarts /\ nm'.pc = "make_manifold_loop") =>
                nm'.bm.faces # nm.bm.faces
         /\ (FixRoundStarts /\ nm'.pc # "make_manifold_loop") =>
                nm'.bm.faces = nm.bm.faces
         /\ (FixRoundStarts /\ count_non_manifold_verts(nm.bm) = 0) =>
                (nm'.bm = nm.bm /\ nm'.pc = "unify_normals")
       ]_vars

\* a round is about to start on a mesh that an earlier round has left
\* without non-manifold vertices
C29_Witness ==
  /\ FixRoundStarts /\ nm.rounds >= 1
  /\ count_non_manifold_verts(nm.bm) = 0

\* C29 (as stated): a round starts only when the mesh has a non-manifold
\* vertex at the start of that round.
C29_Original == FixRoundStarts => count_non_manifold_verts(nm.bm) > 0
(***************************************************************************)
(* The counters of the non-manifold batch                                  *)
(* (clean_non_manifold.py lines 24-37 and 359-376).                        *)
(***************************************************************************)
\* the objects _clean_object_non_manifold has returned for
ProcessedObjects == {x \in Objects : op.applied[x] = "complete"}

\* C30 (as stated): in a non-manifold cleaning batch num_fine + num_fixed +
\* num_failed is the number of objects that were processed, whatever their
\* clean and changed flags were.
C30_EveryProcessedObjectCounted ==
  op.kind = "clean_non_manifold" =>
    op.num_fine + op.num_fixed + op.num_failed = Cardinality(ProcessedObjects)

\* what the code ensures: no object is counted twice, and an object is
\* counted unless it came back neither clean nor changed
C30_CountedAtMostOnce ==
  /\ op.kind = "clean_non_manifold" =>
       op.num_fine + op.num_fixed + op.num_failed <= Cardinality(ProcessedObjects)
  /\ \A r \in NMReturns :
       LET s == count_object(op, r)
       IN  s.num_fine + s.num_fixed + s.num_failed =
             op.num_fine + op.num_fixed + op.num_failed
               + (IF r[1] \/ r[2] THEN 1 ELSE 0)

(***************************************************************************)
(* The report of the clean-intersections operator                          *)
(* (clean_intersections.py lines 527-540 and 579-589).                     *)
(***************************************************************************)
\* the clean-intersections operator ran to its end
SmoothFinished == op.kind = "clean_intersections" /\ op.pc = "done" /\ op.ret = "FINISHED"

\* the objects the operator's report names
NamedInReport == {op.listed[i] : i \in DOMAIN op.listed}

\* C31: when the clean-intersections operator has finished, every object it
\* names in its "Smoothed intersections on" report is one whose mesh the
\* repair changed, and when no processed object was changed its report is
\* "No intersecting faces were found."
C31_NamedOnlyIfChanged ==
  SmoothFinished =>
    /\ NamedInReport \subseteq op.altered
    /\ (ProcessedObjects \cap op.altered = {}) =>
          op.reports[Len(op.reports)].msg = "no_intersecting_faces_found"

\* what the operator does instead: it names every object whose repair
\* returned, changed or not, and says "No intersecting faces were found."
\* only when no object was processed
C31_NamedIfProcessed ==
  SmoothFinished =>
    /\ NamedInReport = ProcessedObjects
    /\ op.reports[Len(op.reports)].msg = "no_intersecting_faces_found" <=> ProcessedObjects = {}

(***************************************************************************)
(* The analyze operator over objects with their meshes                     *)
(* (operations/analyze.py).  an.meshes[x] is the mesh of object x:         *)
(* [co, polys, tri, isect, nmv] with nmv its number of non-manifold        *)
(* vertices; an.before holds the meshes as they were when the operator     *)
(* was invoked; an.raising are the objects the host refuses to edit;       *)
(* an.props[x] are the custom properties the analysis stores on x.  No     *)
(* object has a cached checksum, so calculate_object_mesh_checksum         *)
(* (main.py lines 228-246) computes mesh_checksum_fast of the mesh.        *)
(***************************************************************************)
\* the objects the analysis runs over
NAnObjects == 2

AnObjects == 1..NAnObjects

AnMeshes ==
  [co : {0}, polys : {0}, tri : BOOLEAN, isect : SUBSET Faces, nmv : 0..MaxCount]

\* analyze.py lines 35-38: triangulate every face of the edit mesh and write
\* the result back to the mesh; triangulate_kept_faces leaves the mesh alone
triangulate_kept_faces(m, q) == m
triangulate_edit_mesh(m, q) == triangulate_bmesh(m, q)

\* analyze.py lines 41-44
count_non_manifold_vertices(m) == m.nmv

\* analyze.py lines 47-49
count_self_intersections(m) == Cardinality(bmesh_get_intersecting_face_indices(m))

\* main.py lines 249-273 with both counts, on an object without a cached
\* checksum
an_set_object_analysis_stats(m, non_manifold_count, intersection_count) ==
  [non_manifold_count |-> <<"count", non_manifold_count>>,
   non_manifold_checksum |-> mesh_checksum_fast(m),
   self_intersection_count |-> <<"count", intersection_count>>,
   self_intersection_checksum |-> mesh_checksum_fast(m)]

\* analyze.py lines 161-190 for object x, which is in the scene (no object
\* leaves the scene here; the selection and the active object are followed
\* in the operator machine above); q: the faces the intersection query
\* reports on the triangulated mesh
an_process_object(a, x, q) ==
  IF x \in a.raising THEN a
  ELSE LET m == triangulate_edit_mesh(a.meshes[x], q)
           non_manifold_count == count_non_manifold_vertices(m)
           intersection_count == count_self_intersections(m)
       IN  [a EXCEPT !.meshes[x] = m,
                     !.props[x] = an_set_object_analysis_stats(m, non_manifold_count,
                                                               intersection_count),
                     !.analyses = Append(@, <<x, non_manifold_count, intersection_count>>)]

\* analyze.py lines 102-117
an_modal(a, event, q) ==
  IF event = "ESC" THEN [a EXCEPT !.pc = "done", !.ret = "CANCELLED"]
  ELSE IF event # "TIMER" THEN a
  ELSE IF a.current_index >= Len(a.objects_to_process)
  THEN [a EXCEPT !.pc = "done", !.ret = "FINISHED"]
  ELSE [an_process_object(a, a.objects_to_process[a.current_index + 1], q)
          EXCEPT !.current_index = @ + 1]

\* the operator has been invoked in Object mode on the selected mesh
\* objects (lines 119-151) and waits for its first event
InitAnalyze ==
  /\ RepairIdle
  /\ isl = NoIslands /\ nm = NoNM /\ batch = NoBatch
  /\ ck = NoMeshPair /\ cache = NoCache /\ det = NoQuery /\ grp = NoGrouping
  /\ op = NoOp /\ flt = NoFilter /\ fnm = NoFilterNM /\ sf = NoShrink
  /\ spl = NoSplit /\ bb = NoBoxes
  /\ \E ms \in [AnObjects -> AnMeshes], bad \in SUBSET AnObjects, sel \in SUBSET AnObjects :
       /\ an = [NoAnalysis EXCEPT !.pc = "modal", !.meshes = ms, !.before = ms,
                                  !.raising = bad,
                                  !.props = [x \in AnObjects |-> None],
                                  !.objects_to_process = SortedSeq(sel),
                                  !.ret = "RUNNING_MODAL"]

\* the host delivers a TIMER event to modal()
AnalyzeTimer ==
  /\ an.pc = "modal"
  /\ \E q \in SUBSET Faces :
       /\ LET x == an.objects_to_process[an.current_index + 1]
          IN  (an.current_index < Len(an.objects_to_process) /\ an.meshes[x].tri)
                => q = an.meshes[x].isect
       /\ an' = an_modal(an, "TIMER", q)
  /\ UNCHANGED exceptAn

\* the host delivers an ESC event to modal()
AnalyzeEsc ==
  /\ an.pc = "modal"
  /\ an' = an_modal(an, "ESC", {})
  /\ UNCHANGED exceptAn

NextAnalyze == AnalyzeTimer \/ AnalyzeEsc

SpecAnalyze == InitAnalyze /\ [][NextAnalyze]_vars

\* the objects whose analysis has run
Analyzed == {an.analyses[i][1] : i \in DOMAIN an.analyses}

\* C32: for every object the analyze operator has processed, the vertices
\* and faces of its mesh, and so its content checksum, are the same after
\* the analysis as before it
C32_AnalysisKeepsMesh ==
  \A x \in Analyzed :
    /\ an.meshes[x].co = an.before[x].co
    /\ an.meshes[x].polys = an.before[x].polys
    /\ mesh_checksum_fast(an.meshes[x]) = mesh_checksum_fast(an.before[x])

\* what the analysis keeps: the vertex coordinates of every mesh, the whole
\* mesh of an object it did not process, and the faces of a processed mesh
\* that had only triangles; the faces of any other processed mesh are
\* replaced by triangles, and the checksum stored is the one of the
\* triangulated mesh
C32_KeepsTriangleMeshes ==
  \A x \in AnObjects :
    /\ an.meshes[x].co = an.before[x].co
    /\ (x \notin Analyzed \/ an.before[x].tri) => an.meshes[x] = an.before[x]
    /\ (x \in Analyzed /\ ~an.before[x].tri) =>
          /\ an.meshes[x].tri
          /\ an.meshes[x].polys # an.before[x].polys
    /\ x \in Analyzed => an.props[x].non_manifold_checksum = mesh_checksum_fast(an.meshes[x])

(***************************************************************************)
(* The order of the steps of the non-manifold repair.                      *)
(***************************************************************************)
\* the steps in the order of clean_non_manifold.py lines 49-76
CleanSteps ==
  <<"select_all", "reveal", "triangulate", "count_before", "delete_loose",
    "delete_interior_faces", "fill_holes", "delete_small_islands",
    "dissolve_degenerate", "remove_doubles", "make_manifold", "unify_normals",
    "count_after">>

\* the steps in the order of t4p_smooth_intersection/__init__.py lines 917-960
LegacySteps ==
  <<"select_all", "triangulate", "delete_small_islands", "delete_interior_faces",
    "delete_loose", "fill_holes", "dissolve_degenerate">>

StepsOf(version) == IF version = "legacy" THEN LegacySteps ELSE CleanSteps

IsPrefix(s, t) == Len(s) <= Len(t) /\ \A i \in DOMAIN s : s[i] = t[i]

NMReturned == nm.pc \in {"returned", "returned_legacy"} /\ ~nm.refused

AtIndex == op.objects_to_process[op.current_index + 1]

\* what a TIMER event can make of the operator's state
TimerResults ==
  {modal(op, "TIMER", r, cached, found) :
     r \in NMReturns, cached \in BOOLEAN, found \in BOOLEAN}

\* the objects of the batch below the index have had their step called, in
\* list order, the others have not
ProcessedInListOrder ==
  \A i \in DOMAIN op.objects_to_process :
    op.calls[op.objects_to_process[i]] # "none" => i <= op.current_index

\* the TIMER event result s advanced the index over the object at the index
\* and touched no other object
AdvancedOverOne(s) ==
  /\ s.current_index = op.current_index + 1
  /\ s.calls[AtIndex] = "returned"
  /\ \A x \in Objects \ {AtIndex} :
       s.calls[x] = op.calls[x] /\ s.applied[x] = op.applied[x]

\* C34: in a modal batch 0 <= current_index <= len(objects_to_process);
\* a TIMER event processes the object at current_index and increments the
\* index, so that objects are processed in list order, each at most once;
\* an event other than TIMER and ESC changes no state; the TIMER event that
\* finds every object processed ends the batch as FINISHED
C34_IndexDiscipline ==
  /\ 0 <= op.current_index /\ op.current_index <= Len(op.objects_to_process)
  /\ op.pc = "modal" =>
       /\ ProcessedInListOrder
       /\ op.calls[AtIndex] = "none" \/ op.current_index = Len(op.objects_to_process)
       /\ modal(op, "MOUSEMOVE", <<FALSE, FALSE, FALSE>>, FALSE, FALSE) = op
       /\ \A s \in TimerResults :
            IF op.current_index >= Len(op.objects_to_process)
            THEN s.pc = "done" /\ s.ret = "FINISHED"
            ELSE AdvancedOverOne(s)

\* the same for the TIMER events whose handler returns; an event whose
\* per-object step raises leaves the index where it was and ends the
\* operator, and so does the last event of filter intersections when an
\* object it found has left the scene
C34_IndexDisciplineOnReturn ==
  /\ 0 <= op.current_index /\ op.current_index <= Len(op.objects_to_process)
  /\ op.pc = "modal" =>
       /\ ProcessedInListOrder
       /\ modal(op, "MOUSEMOVE", <<FALSE, FALSE, FALSE>>, FALSE, FALSE) = op
       /\ \A s \in TimerResults :
            IF op.current_index >= Len(op.objects_to_process)
            THEN /\ s.pc = "done"
                 /\ \/ s.ret = "FINISHED"
                    \/ /\ s.ret = "exception" /\ op.kind = "filter_intersections"
                       /\ \E k \in DOMAIN op.listed : ~in_scene(op, op.listed[k])
            ELSE IF s.ret # "exception" THEN AdvancedOverOne(s)
            ELSE /\ s.current_index = op.current_index /\ s.pc = "done"
                 /\ op.kind = "clean_non_manifold"

(***************************************************************************)
(* The summary report of the non-manifold batch                            *)
(* (clean_non_manifold.py lines 421-436).                                  *)
(***************************************************************************)
\* the batch ran over its objects and finished without being cancelled
BatchCompleted ==
  /\ batch.pc = "finished" /\ batch.ret = "FINISHED"
  /\ batch.current_index >= Len(batch.objects_to_process)
  /\ batch.num_candidates > 0

\* C35: a non-manifold cleaning batch that finished without cancellation
\* has emitted exactly one summary report, whatever the candidate, fine,
\* fixed, failed and worse counts are
C35_OneSummaryReport == BatchCompleted => Len(batch.reports) = 1

\* what holds instead: never more than one report, and none exactly when no
\* object was counted fixed, failed or worse (all were fine, or returned
\* neither clean nor changed)
C35_ReportUnlessNothingCounted ==
  BatchCompleted =>
    /\ Len(batch.reports) <= 1
    /\ batch.reports = <<>> <=>
         (batch.num_fixed = 0 /\ batch.num_failed = 0 /\ batch.num_worse = 0)

(***************************************************************************)
(* Selection and active object after a cancelled batch.                    *)
(***************************************************************************)
\* the modal operators of the operator machine that change the selection
SelectionChangingKinds == {"clean_non_manifold", "analyze", "filter_intersections"}

CancelledSelectionBatch == EndedByEsc /\ op.kind \in SelectionChangingKinds

\* C36: after a modal batch that changes the selection was cancelled with
\* ESC, the selected objects are the objects of the initial selection that
\* are still in the scene, and the active object is the initial active
\* object if it is still in the scene and none otherwise
C36_CancelRestoresSelection ==
  CancelledSelectionBatch =>
    /\ op.selected = op.at_invoke.selected \cap op.scene
    /\ op.active = IF op.at_invoke.active \in op.scene THEN op.at_invoke.active ELSE 0

\* a batch was cancelled after it had processed an object and made it the
\* active one, and after the initial active object had left the scene
C36_Witness ==
  /\ CancelledSelectionBatch
  /\ op.current_index >= 1
  /\ op.at_invoke.active # 0 /\ op.at_invoke.active \notin op.scene
  /\ op.selected # {} /\ op.selected # op.at_invoke.selected

\* the same for the filter-non-manifold operator, whose objects stay in the
\* scene
C36_FilterNMCancelRestores ==
  (fnm.pc = "done" /\ fnm.ret = "CANCELLED") =>
    /\ fnm.selected = fnm.at_invoke.selected
    /\ fnm.active = fnm.at_invoke.active

(***************************************************************************)
(* The two cache slots (main.py lines 249-318).                            *)
(***************************************************************************)
\* the slot that is not s
OtherSlot(s) == CHOOSE t \in Slots : t # s

\* the counts argument that gives count n for slot s and nothing for the
\* other slot
OnlySlot(s, n) == [t \in Slots |-> IF t = s THEN n ELSE None]

\* the checksums a slot can hold
StoredChecksums == {None, ZeroString} \cup {Hexdigest(c) : c \in Contents}
                     \cup {<<"int", c>> : c \in Contents}

\* C37: storing analysis stats with only one of the two counts writes that
\* slot's count and checksum and leaves the count and the checksum stored
\* in the other slot as they were; what a read of one slot returns does not
\* depend on the count and the checksum stored in the other slot
C37_SlotsIndependent ==
  cache.live =>
    \A s \in Slots :
      /\ \A n \in CountValues :
           LET o2 == set_object_analysis_stats(cache.obj, OnlySlot(s, n),
                                               cache.now, cache.decimal)
           IN  /\ o2.count[s] = n
               /\ o2.checksum[s] # None
               /\ o2.count[OtherSlot(s)] = cache.obj.count[OtherSlot(s)]
               /\ o2.checksum[OtherSlot(s)] = cache.obj.checksum[OtherSlot(s)]
      /\ \A x \in StoredChecksums, n \in CountValues \cup {None} :
           get_validated_object_stat(
               [cache.obj EXCEPT !.checksum[OtherSlot(s)] = x, !.count[OtherSlot(s)] = n],
               s, cache.now, cache.decimal)[1]
             = get_validated_object_stat(cache.obj, s, cache.now, cache.decimal)[1]

\* the two slots hold counts stored for different mesh contents, under
\* different checksums, and a read has just returned the count of one
C37_Witness ==
  /\ cache.live
  /\ \A s \in Slots : cache.obj.count[s] # None /\ cache.obj.checksum[s] # None
  /\ cache.obj.checksum["non_manifold"] # cache.obj.checksum["self_intersection"]
  /\ cache.last[1] = "read" /\ cache.last[3] # None

(***************************************************************************)
(* The splitter on one visited face (clean_intersections.py lines 116-218, *)
(* split_long.py lines 71-187, t4p_smooth_intersection/operations/smooth.py*)
(* lines 167-274).  spl.face is the face: whether it is valid, the angle   *)
(* in degrees at each of its three corners and the length of each of its   *)
(* three edges in units of 1e-6 (edge i joins corner i and the next        *)
(* corner); spl.host is what the host's operators give: for each of the    *)
(* two subdivisions whether it returns a new vertex, whether the two new   *)
(* vertices are one and the same, whether they share a face, whether an    *)
(* edge joins them already, whether connect_verts returns a new edge.      *)
(***************************************************************************)
\* largest edge length of the face, in units of 1e-6
MaxEdgeLength == 3
\* clean_intersections.py:254, split_long.py:12  radians(15.0), in degrees
SharpAngleClean == 15
\* smooth.py:299  radians(30.0), in degrees
SharpAngleLegacy == 30
\* clean_intersections.py:125  if length <= 1e-6, in units of 1e-6
TinyLength == 1
\* float("inf")
NoAngle == 999

SplitVersions == {"clean", "split_long", "legacy"}
Corners == 1..3
CornerAngles == {SharpAngleClean - 1, SharpAngleClean, SharpAngleLegacy - 1, SharpAngleLegacy}
EdgeLengths == 1..MaxEdgeLength
PrevCorner(i) == IF i = 1 THEN 3 ELSE i - 1

\* sharp_angle_threshold of the caller
sharp_angle_threshold(version) ==
  IF version = "legacy" THEN SharpAngleLegacy ELSE SharpAngleClean

\* _find_smallest_face_angle: corners with a vector of length <= 1e-6 to a
\* neighbour are left out
find_smallest_face_angle(face) ==
  LET counted == {i \in Corners : ~(face.length[PrevCorner(i)] <= TinyLength
                                    \/ face.length[i] <= TinyLength)}
  IN  IF counted = {} THEN NoAngle ELSE MinOf({face.angle[i] : i \in counted})

\* _collect_longest_edges: the edges longer than 1e-6, the two longest of
\* them first (the sort is stable: equal lengths stay in face order)
collect_longest_edges(face) ==
  LET eligible == {i \in Corners : ~(face.length[i] <= TinyLength)}
      before(i, j) == face.length[i] > face.length[j] \/ (face.length[i] = face.length[j] /\ i < j)
      first == CHOOSE i \in eligible : \A j \in eligible \ {i} : before(i, j)
      second == CHOOSE i \in eligible \ {first} : \A j \in eligible \ {first, i} : before(i, j)
  IN  IF Cardinality(eligible) < 2 THEN <<>> ELSE <<first, second>>

\* _subdivide_edges_and_collect_midpoints: the new vertices, named by the
\* subdivision that made them
subdivide_edges_and_collect_midpoints(edges, host) ==
  SelectSeq(<<1, 2>>, LAMBDA k : host.new_vertex[k])

\* _connect_midpoints_if_possible: <<returned value, an edge was inserted>>;
\* connect_midpoints_sharing_face does not look for an edge joining the two
connect_midpoints_sharing_face(version, midpoint_vertices, host) ==
  IF Len(midpoint_vertices) < 2 THEN <<FALSE, FALSE>>
  ELSE IF host.same_vertex THEN <<FALSE, FALSE>>
  ELSE IF ~host.shared_face THEN <<FALSE, FALSE>>
  ELSE IF version = "legacy" THEN <<TRUE, host.new_edge>>
  ELSE <<host.new_edge, host.new_edge>>
connect_midpoints_if_possible(version, midpoint_vertices, host) ==
  IF Len(midpoint_vertices) < 2 THEN <<FALSE, FALSE>>
  ELSE IF host.same_vertex THEN <<FALSE, FALSE>>
  ELSE IF ~host.shared_face THEN <<FALSE, FALSE>>
  ELSE IF host.existing_edge
  THEN IF version = "legacy" THEN <<TRUE, FALSE>> ELSE <<FALSE, FALSE>>
  ELSE IF version = "legacy" THEN <<TRUE, host.new_edge>>
  ELSE <<host.new_edge, host.new_edge>>

\* _process_intersecting_face / _split_face:
\* <<returned value, an edge was inserted, edges subdivided>>
process_intersecting_face(version, face, host) ==
  IF ~face.valid THEN <<FALSE, FALSE, 0>>
  ELSE IF find_smallest_face_angle(face) >= sharp_angle_threshold(version)
  THEN <<FALSE, FALSE, 0>>
  ELSE LET longest_edges == collect_longest_edges(face)
       IN  IF Len(longest_edges) < 2 THEN <<FALSE, FALSE, 0>>
           ELSE LET midpoint_vertices ==
                      subdivide_edges_and_collect_midpoints(longest_edges, host)
                    r == connect_midpoints_if_possible(version, midpoint_vertices, host)
                IN  <<r[1], r[2], Len(longest_edges)>>

\* a face the split pass visits, and what the host will answer
InitSplit ==
  /\ RepairIdle
  /\ isl = NoIslands /\ nm = NoNM /\ batch = NoBatch
  /\ ck = NoMeshPair /\ cache = NoCache /\ det = NoQuery /\ grp = NoGrouping
  /\ op = NoOp /\ flt = NoFilter /\ fnm = NoFilterNM /\ sf = NoShrink
  /\ an = NoAnalysis /\ bb = NoBoxes
  /\ \E ver \in SplitVersions, v \in BOOLEAN, a1 \in CornerAngles, a2 \in CornerAngles,
        len \in [Corners -> EdgeLengths], nv \in [1..2 -> BOOLEAN],
        same \in BOOLEAN, sh \in BOOLEAN, ex \in BOOLEAN, ne \in BOOLEAN :
       /\ same => (nv[1] /\ nv[2])
       /\ ~v => (a1 = SharpAngleClean /\ a2 = SharpAngleClean)
       /\ spl = [NoSplit EXCEPT !.pc = "visited", !.version = ver,
                   !.face = [valid |-> v, angle |-> <<a1, a2, 90>>, length |-> len],
                   !.host = [new_vertex |-> nv, same_vertex |-> same, shared_face |-> sh,
                             existing_edge |-> ex, new_edge |-> ne]]

\* the split pass calls the splitter on the face
SplitFace ==
  /\ spl.pc = "visited"
  /\ LET r == process_intersecting_face(spl.version, spl.face, spl.host)
     IN  spl' = [spl EXCEPT !.pc = "done", !.reported = r[1], !.inserted = r[2],
                            !.subdivided = r[3]]
  /\ UNCHANGED exceptSpl

NextSplit == SplitFace

SpecSplit == InitSplit /\ [][NextSplit]_vars

\* the face has a corner sharper than t degrees, two edges longer than 1e-6
\* whose subdivisions gave two different vertices, and these share a face
Splittable(t) ==
  /\ spl.face.valid
  /\ find_smallest_face_angle(spl.face) < t
  /\ Cardinality({i \in Corners : spl.face.length[i] > TinyLength}) >= 2
  /\ spl.host.new_vertex[1] /\ spl.host.new_vertex[2] /\ ~spl.host.same_vertex
  /\ spl.host.shared_face

NBoxes == 3
\* coordinates 0..MaxBoxCo on the x axis
MaxBoxCo == 2

BoxCoords == 0..MaxBoxCo
\* the extents a box can have on the x axis, on the y axis and on the z axis
XExtents == {e \in BoxCoords \X BoxCoords : e[1] <= e[2]}
YExtents == {<<0, 1>>, <<1, 2>>, <<2, 2>>}
ZExtents == {<<0, 0>>, <<1, 1>>}

\* _bounding_boxes_intersect; bounding_boxes_cross asks for more than a
\* common border
bounding_boxes_cross(box_a, box_b) ==
  LET min_a == box_a[1]  max_a == box_a[2]
      min_b == box_b[1]  max_b == box_b[2]
  IN  /\ max_a[1] > min_b[1] /\ max_b[1] > min_a[1]
      /\ max_a[2] > min_b[2] /\ max_b[2] > min_a[2]
      /\ max_a[3] > min_b[3] /\ max_b[3] > min_a[3]
bounding_boxes_intersect(box_a, box_b) ==
  LET min_a == box_a[1]  max_a == box_a[2]
      min_b == box_b[1]  max_b == box_b[2]
  IN  /\ max_a[1] >= min_b[1] /\ max_b[1] >= min_a[1]
      /\ max_a[2] >= min_b[2] /\ max_b[2] >= min_a[2]
      /\ max_a[3] >= min_b[3] /\ max_b[3] >= min_a[3]

\* lines 73-78: adjacency[i] is the set of the other islands whose box
\* intersects the box of island i
box_adjacency(boxes) ==
  [idx_a \in DOMAIN boxes |->
     {idx_b \in DOMAIN boxes \ {idx_a} : bounding_boxes_intersect(boxes[idx_a], boxes[idx_b])}]

\* lines 86-94: the while loop over the stack; <<visited, group>> at its end.
\* stack.extend puts the neighbours on the stack in the order the set gives
\* them, which is ascending for small integers
RECURSIVE box_group_from(_, _, _, _)
box_group_from(stack, visited, group, adjacency) ==
  IF stack = <<>> THEN <<visited, group>>
  ELSE LET current == stack[Len(stack)]
           popped == SubSeq(stack, 1, Len(stack) - 1)
       IN  IF current \in visited
           THEN box_group_from(popped, visited, group, adjacency)
           ELSE box_group_from(popped \o SortedSeq(adjacency[current]),
                               visited \cup {current}, Append(group, current), adjacency)

\* lines 80-98: the for loop over the start indices from start on
RECURSIVE box_groups_from(_, _, _, _, _)
box_groups_from(start, n, visited, groups, adjacency) ==
  IF start > n THEN groups
  ELSE IF start \in visited THEN box_groups_from(start + 1, n, visited, groups, adjacency)
  ELSE LET r == box_group_from(<<start>>, visited, <<>>, adjacency)
       IN  box_groups_from(start + 1, n, r[1], Append(groups, r[2]), adjacency)

\* _group_intersecting_bounding_boxes
group_intersecting_bounding_boxes(boxes) ==
  box_groups_from(1, Len(boxes), {}, <<>>, box_adjacency(boxes))

\* the boxes of the islands of a selection
InitBoxes ==
  /\ RepairIdle
  /\ isl = NoIslands /\ nm = NoNM /\ batch = NoBatch
  /\ ck = NoMeshPair /\ cache = NoCache /\ det = NoQuery /\ grp = NoGrouping
  /\ op = NoOp /\ flt = NoFilter /\ fnm = NoFilterNM /\ sf = NoShrink
  /\ an = NoAnalysis /\ spl = NoSplit
  /\ \E n \in 0..NBoxes :
       \E ex \in [1..n -> XExtents], ey \in [1..n -> YExtents], ez \in [1..n -> ZExtents] :
         bb = [NoBoxes EXCEPT !.pc = "boxes",
                 !.boxes = [i \in 1..n |-> << <<ex[i][1], ey[i][1], ez[i][1]>>,
                                              <<ex[i][2], ey[i][2], ez[i][2]>> >>]]

\* clean_intersections.py line 401: the boxes are grouped
GroupBoxes ==
  /\ bb.pc = "boxes"
  /\ bb' = [bb EXCEPT !.pc = "grouped", !.groups = group_intersecting_bounding_boxes(bb.boxes)]
  /\ UNCHANGED exceptBb

NextBoxes == GroupBoxes

SpecBoxes == InitBoxes /\ [][NextBoxes]_vars

\* boxes a and b have a point in common, be it only on their borders
SharePoint(a, b) ==
  \E x \in 0..MaxBoxCo, y \in 0..2, z \in 0..1 :
    \A c \in {a, b} : /\ c[1][1] <= x /\ x <= c[2][1]
                      /\ c[1][2] <= y /\ y <= c[2][2]
                      /\ c[1][3] <= z /\ z <= c[2][3]

\* the islands joined to an island of S by a chain of islands in which
\* each box has a point in common with the next
RECURSIVE ChainedTo(_)
ChainedTo(S) ==
  LET T == S \cup {j \in DOMAIN bb.boxes :
                     \E i \in S : SharePoint(bb.boxes[i], bb.boxes[j])}
  IN  IF T = S THEN S ELSE ChainedTo(T)

GroupSet(k) == {bb.groups[k][i] : i \in DOMAIN bb.groups[k]}

\* C39: the groups are a partition of the islands (every island is in
\* exactly one group, once), and two islands are in the same group if and
\* only if a chain of islands joins them in which the boxes of neighbours
\* overlap, a common border counting as overlap
C39_GroupsAreOverlapChains ==
  bb.pc = "grouped" =>
    /\ \A i \in DOMAIN bb.boxes :
         Cardinality({k \in DOMAIN bb.groups : i \in GroupSet(k)}) = 1
    /\ \A k \in DOMAIN bb.groups :
         /\ GroupSet(k) \subseteq DOMAIN bb.boxes
         /\ Cardinality(GroupSet(k)) = Len(bb.groups[k])
         /\ Len(bb.groups[k]) > 0
    /\ \A i \in DOMAIN bb.boxes, j \in DOMAIN bb.boxes :
         (\E k \in DOMAIN bb.groups : {i, j} \subseteq GroupSet(k))
           <=> j \in ChainedTo({i})

\* three islands in one group of which two have boxes apart from each
\* other, and two have boxes with no more than a border in common
C39_Witness ==
  /\ bb.pc = "grouped" /\ Len(bb.boxes) >= 3 /\ Len(bb.groups) = 1
  /\ \E i \in DOMAIN bb.boxes, j \in DOMAIN bb.boxes :
       ~SharePoint(bb.boxes[i], bb.boxes[j])
  /\ \E i \in DOMAIN bb.boxes, j \in DOMAIN bb.boxes :
       /\ i # j /\ SharePoint(bb.boxes[i], bb.boxes[j])
       /\ bb.boxes[i][2][1] = bb.boxes[j][1][1]
       /\ bb.boxes[i][2][1] # bb.boxes[i][1][1] /\ bb.boxes[j][2][1] # bb.boxes[j][1][1]

\* the calls the smooth loop makes in iteration i when run as described
StatedCalls(i) ==
  [i |-> i, grow |-> IF i <= 2 THEN 2 ELSE 3, shrink |-> 1, factor |-> 5,
   repeat |-> IF i <= 2 THEN 2 ELSE 3]

\* C40: in smoothing iteration i of t4p_clean the selection is grown by 2
\* rings when i <= 2 and by 3 rings when i >= 3, shrunk by 1 ring, and the
\* vertices are smoothed with factor 0.5 and repeat count 2 when i <= 2 and
\* 3 when i >= 3: an iteration that finds intersecting faces does not stop
\* before these calls, and makes them with these arguments
C40_CleanSmoothingCalls ==
  engine = "clean" =>
    /\ pc # "raised"
    /\ counters.smooth > 0 => counters.params = StatedCalls(counters.params.i)

\* the older smooth loop (smooth.py) grows by 2 rings, shrinks by 1 and
\* smooths with factor 0.5 in every iteration, and its repeat count is the
\* number of the iteration
C40_LegacySmoothingCalls ==
  (engine = "legacy" /\ counters.smooth > 0) =>
    /\ counters.params.i = iteration - 1
    /\ counters.params.i \in 1..max_attempts
    /\ counters.params.grow = 2 /\ counters.params.shrink = 1
    /\ counters.params.factor = 5
    /\ counters.params.repeat = counters.params.i
====
